---- MODULE Spec2Model ----
(***************************************************************************)
(* State-machine model of the SHT3x I2C driver (src/src/SHT3x.cpp).        *)
(*                                                                         *)
(* The driver object is the record `drv`; the host clock (millis/micros)   *)
(* is `gMillis`/`gMicros`.  Every public method is one action.  Private    *)
(* helpers are operators that thread a "machine" record                    *)
(*   m = [d, ms, us, io, nw, nr, env]                                      *)
(* (driver, clocks, bus log of the call, transport call counters and the   *)
(* transport behaviour chosen by the environment for this call) and return *)
(* [m |-> machine after, st |-> Status].                                   *)
(*                                                                         *)
(* uint32_t values are pairs <<hi, lo>> of 16-bit limbs so that modular    *)
(* arithmetic keeps its 32-bit width.                                      *)
(***************************************************************************)
EXTENDS Integers, Sequences, FiniteSets, TLC

\* ------------------------------------------------------------------------
\* uint32_t arithmetic (two 16-bit limbs, most significant first)
\* ------------------------------------------------------------------------
Limb == 2^16

U32(n) == <<n \div Limb, n % Limb>>

Zero32 == <<0, 0>>

MaxU32 == <<Limb - 1, Limb - 1>>

Add32(a, b) ==
  LET lo == a[2] + b[2]
      hi == a[1] + b[1] + (lo \div Limb)
  IN  <<hi % Limb, lo % Limb>>

Sub32(a, b) ==
  LET lo == (a[2] - b[2]) + Limb
      hi == (a[1] - b[1]) + Limb - (IF lo < Limb THEN 1 ELSE 0)
  IN  <<hi % Limb, lo % Limb>>

\* static_cast<int32_t>(a) < 0
IsNeg32(a) == a[1] >= Limb \div 2

\* unsigned a > b
Gt32(a, b) == a[1] > b[1] \/ (a[1] = b[1] /\ a[2] > b[2])

\* unsigned a / p for 0 < p < 2^15
Div32(a, p) ==
  LET q1 == a[1] \div p
      r1 == a[1] % p
      q2 == (r1 * Limb + a[2]) \div p
  IN  <<q1, q2>>

\* value of a small uint32_t (hi limb < 2^15) as a number
Nat32(a) == a[1] * Limb + a[2]

SatInc32(a) == IF a # MaxU32 THEN Add32(a, U32(1)) ELSE a

_timeElapsed(now, target) == ~IsNeg32(Sub32(now, target))

\* ------------------------------------------------------------------------
\* Codec
\* ------------------------------------------------------------------------
CRC_INIT == 255
CRC_POLY == 49

RECURSIVE Xor(_, _)
Xor(a, b) ==
  IF a = 0 THEN b
  ELSE IF b = 0 THEN a
  ELSE 2 * Xor(a \div 2, b \div 2) + ((a + b) % 2)

RECURSIVE CrcBits(_, _)
CrcBits(crc, bit) ==
  IF bit = 8 THEN crc
  ELSE CrcBits(IF crc >= 128 THEN Xor((crc * 2) % 256, CRC_POLY)
                              ELSE (crc * 2) % 256,
               bit + 1)

RECURSIVE CrcFrom(_, _, _)
CrcFrom(crc, data, i) ==
  IF i > Len(data) THEN crc
  ELSE CrcFrom(CrcBits(Xor(crc, data[i]), 0), data, i + 1)

_crc8(data) == CrcFrom(CRC_INIT, data, 1)

convertTemperatureC_x100(raw) == ((17500 * raw + 32767) \div 65535) - 4500

convertHumidityPct_x100(raw) == (10000 * raw + 32767) \div 65535

\* ------------------------------------------------------------------------
\* Command table and file-local constants
\* ------------------------------------------------------------------------
I2C_ADDR_LOW == 68
I2C_ADDR_HIGH == 69
GENERAL_CALL_ADDR == 0
GENERAL_CALL_RESET_BYTE == 6
CMD_FETCH_DATA == 57344
CMD_ART == 11058
CMD_BREAK == 12435
CMD_READ_STATUS == 62253
CMD_CLEAR_STATUS == 12353
CMD_SERIAL_STRETCH == 14208
CMD_SERIAL_NO_STRETCH == 13954
CMD_ALERT_READ_HIGH_SET == 57631
CMD_ALERT_READ_HIGH_CLEAR == 57620
CMD_ALERT_READ_LOW_CLEAR == 57609
CMD_ALERT_READ_LOW_SET == 57602
CMD_SOFT_RESET == 12450
CMD_HEATER_ENABLE == 12397
CMD_HEATER_DISABLE == 12390
CMD_ALERT_WRITE_HIGH_SET == 24861
CMD_ALERT_WRITE_HIGH_CLEAR == 24854
CMD_ALERT_WRITE_LOW_CLEAR == 24843
CMD_ALERT_WRITE_LOW_SET == 24832
STATUS_COMMAND_ERROR == 2
STATUS_WRITE_CRC_ERROR == 1
MEASUREMENT_DATA_LEN == 6
STATUS_DATA_LEN == 3
SERIAL_DATA_LEN == 6
ALERT_DATA_LEN == 3

RESET_DELAY_MS == 2
BREAK_DELAY_MS == 1
MIN_COMMAND_DELAY_MS == 1
MEASUREMENT_MARGIN_MS == 1
ART_PERIOD_MS == 250
MaxU8 == 255

Repeatabilities == {"LOW_REPEATABILITY", "MEDIUM_REPEATABILITY", "HIGH_REPEATABILITY"}
PeriodicRates == {"MPS_0_5", "MPS_1", "MPS_2", "MPS_4", "MPS_10"}
Modes == {"SINGLE_SHOT", "PERIODIC", "ART"}

isValidRepeatability(rep) == rep \in Repeatabilities
isValidClockStretching(s) == s \in {"STRETCH_DISABLED", "STRETCH_ENABLED"}
isValidPeriodicRate(rate) == rate \in PeriodicRates
isValidMode(mode) == mode \in Modes

isI2cFailure(code) ==
  code \in {"I2C_ERROR", "I2C_NACK_ADDR", "I2C_NACK_DATA", "I2C_NACK_READ",
            "I2C_TIMEOUT", "I2C_BUS"}

baseMeasurementMs(rep, lowVdd) ==
  IF lowVdd
  THEN CASE rep = "LOW_REPEATABILITY" -> 5
         [] rep = "MEDIUM_REPEATABILITY" -> 7
         [] OTHER -> 16
  ELSE CASE rep = "LOW_REPEATABILITY" -> 4
         [] rep = "MEDIUM_REPEATABILITY" -> 6
         [] OTHER -> 15

_commandForSingleShot(rep, stretch) ==
  LET useStretch == (stretch = "STRETCH_ENABLED")
  IN  CASE rep = "HIGH_REPEATABILITY" -> IF useStretch THEN 11270 ELSE 9216
        [] rep = "MEDIUM_REPEATABILITY" -> IF useStretch THEN 11277 ELSE 9227
        [] rep = "LOW_REPEATABILITY" -> IF useStretch THEN 11280 ELSE 9238
        [] OTHER -> 0

_commandForPeriodic(rep, rate) ==
  LET pick(h, md, l) ==
        CASE rep = "HIGH_REPEATABILITY" -> h
          [] rep = "MEDIUM_REPEATABILITY" -> md
          [] rep = "LOW_REPEATABILITY" -> l
          [] OTHER -> 0
  IN  CASE rate = "MPS_0_5" -> pick(8242, 8228, 8239)
        [] rate = "MPS_1" -> pick(8496, 8486, 8493)
        [] rate = "MPS_2" -> pick(8758, 8736, 8747)
        [] rate = "MPS_4" -> pick(9012, 8994, 9001)
        [] rate = "MPS_10" -> pick(10039, 10017, 10026)
        [] OTHER -> 0

\* AlertLimitKind: HIGH_SET = 0, HIGH_CLEAR = 1, LOW_CLEAR = 2, LOW_SET = 3
_commandForAlertRead(kind) ==
  CASE kind = 0 -> CMD_ALERT_READ_HIGH_SET
    [] kind = 1 -> CMD_ALERT_READ_HIGH_CLEAR
    [] kind = 2 -> CMD_ALERT_READ_LOW_CLEAR
    [] kind = 3 -> CMD_ALERT_READ_LOW_SET
    [] OTHER -> 0

_commandForAlertWrite(kind) ==
  CASE kind = 0 -> CMD_ALERT_WRITE_HIGH_SET
    [] kind = 1 -> CMD_ALERT_WRITE_HIGH_CLEAR
    [] kind = 2 -> CMD_ALERT_WRITE_LOW_CLEAR
    [] kind = 3 -> CMD_ALERT_WRITE_LOW_SET
    [] OTHER -> 0

_periodMsForRate(rate) ==
  CASE rate = "MPS_0_5" -> 2000
    [] rate = "MPS_1" -> 1000
    [] rate = "MPS_2" -> 500
    [] rate = "MPS_4" -> 250
    [] rate = "MPS_10" -> 100
    [] OTHER -> 1000

hasCapability(caps, cap) == cap \in caps

\* ------------------------------------------------------------------------
\* Status values
\* ------------------------------------------------------------------------
Ok == [code |-> "OK", detail |-> 0]

Error(c, det) == [code |-> c, detail |-> det]

IsOk(st) == st.code = "OK"

Ret(mm, s) == [m |-> mm, st |-> s]

\* the value of a local variable: Only({ f(v) : v \in {e} }) is f(e) with e
\* evaluated once
Only(S) == CHOOSE v \in S : TRUE

\* ------------------------------------------------------------------------
\* Transport (host callbacks).  The environment scripts the outcome of the
\* k-th write and k-th read of a call; when the script is exhausted the
\* transport answers OK (a well-formed frame for reads).
\* ------------------------------------------------------------------------
Word(w) == <<w \div 256, w % 256>>

WithCrc(w) == Word(w) \o <<_crc8(Word(w))>>

Frame(w1, w2) == WithCrc(w1) \o WithCrc(w2)

\* what a healthy sensor answers: raw temperature 0xBEEF, raw humidity 0x6666
GoodFrame == Frame(48879, 26214)

\* and its status register: alert pending and reset detected, no error bit
GoodStatus == WithCrc(32784)

Health(d) ==
  [ts |-> d.totalSuccess, tf |-> d.totalFailures, cf |-> d.consecutiveFailures,
   state |-> d.driverState, bus |-> d.lastBusActivityMs, err |-> d.lastError.code]

LogEntry(mm, kind, addr, tx, rx, res) ==
  [k |-> kind, addr |-> addr, tx |-> tx, rx |-> rx, res |-> res,
   us |-> mm.us, ms |-> mm.ms, tracked |-> FALSE, allow |-> FALSE, ret |-> res,
   h0 |-> Health(mm.d), h1 |-> Health(mm.d)]

\* the tracked wrapper's view of the transport call it has just made
Annotate(mBefore, mAfter, allow, ret) ==
  IF Len(mAfter.io) = Len(mBefore.io) THEN mAfter
  ELSE [mAfter EXCEPT !.io[Len(mAfter.io)] =
          [@ EXCEPT !.tracked = TRUE, !.allow = allow, !.ret = ret,
                    !.h1 = Health(mAfter.d)]]

i2cWrite(mm, addr, buf) ==
  LET k == mm.nw + 1
      code == IF k <= Len(mm.env.wr) THEN mm.env.wr[k] ELSE "OK"
      st == IF code = "OK" THEN Ok ELSE Error(code, Len(mm.io) + 1)
  IN  Ret([mm EXCEPT !.nw = k,
                     !.io = Append(@, LogEntry(mm, "w", addr, buf, <<>>, code))], st)

i2cWriteRead(mm, addr, tx, rxLen) ==
  LET k == mm.nr + 1
      o == IF k <= Len(mm.env.rd) THEN mm.env.rd[k]
           ELSE [code |-> "OK",
                 data |-> IF rxLen = STATUS_DATA_LEN THEN GoodStatus ELSE GoodFrame]
      code == IF Len(tx) > 0 THEN "INVALID_PARAM" ELSE o.code
      st == IF code = "OK" THEN Ok ELSE Error(code, Len(mm.io) + 1)
      buf == IF code = "OK" THEN SubSeq(o.data, 1, rxLen) ELSE [i \in 1..rxLen |-> 0]
  IN  [m |-> [mm EXCEPT !.nr = k,
                        !.io = Append(@, LogEntry(mm, "r", addr, tx, buf, code))],
       st |-> st, buf |-> buf]

\* ------------------------------------------------------------------------
\* Health tracker
\* ------------------------------------------------------------------------
_recordBusActivity(mm, nowMs) == [mm EXCEPT !.d.lastBusActivityMs = nowMs]

\* the OFFLINE test written with > instead of >=
_updateHealthLateOffline(mm, st) ==
  LET now == mm.ms
      m1 == _recordBusActivity(mm, now)
      cf == IF m1.d.consecutiveFailures < MaxU8
            THEN m1.d.consecutiveFailures + 1 ELSE m1.d.consecutiveFailures
  IN  IF ~m1.d.initialized
      THEN IF IsOk(st)
           THEN [m1 EXCEPT !.d.lastOkMs = now]
           ELSE [m1 EXCEPT !.d.lastError = st, !.d.lastErrorMs = now]
      ELSE IF IsOk(st)
           THEN [m1 EXCEPT !.d.lastOkMs = now,
                           !.d.totalSuccess = SatInc32(@),
                           !.d.consecutiveFailures = 0,
                           !.d.driverState = "READY"]
           ELSE [m1 EXCEPT !.d.lastError = st,
                           !.d.lastErrorMs = now,
                           !.d.totalFailures = SatInc32(@),
                           !.d.consecutiveFailures = cf,
                           !.d.driverState =
                              IF cf > m1.d.config.offlineThreshold
                              THEN "OFFLINE" ELSE "DEGRADED"]

\* a tracker that counts before the driver is initialized as it does after
_updateHealthPreInitCounted(mm, st) ==
  LET now == mm.ms
      m1 == _recordBusActivity(mm, now)
      cf == IF m1.d.consecutiveFailures < MaxU8
            THEN m1.d.consecutiveFailures + 1 ELSE m1.d.consecutiveFailures
  IN  IF IsOk(st)
      THEN [m1 EXCEPT !.d.lastOkMs = now,
                      !.d.totalSuccess = SatInc32(@),
                      !.d.consecutiveFailures = 0,
                      !.d.driverState = "READY"]
      ELSE [m1 EXCEPT !.d.lastError = st,
                      !.d.lastErrorMs = now,
                      !.d.totalFailures = SatInc32(@),
                      !.d.consecutiveFailures = cf,
                      !.d.driverState =
                         IF cf >= m1.d.config.offlineThreshold
                         THEN "OFFLINE" ELSE "DEGRADED"]

_updateHealth(mm, st) ==
  LET now == mm.ms
      m1 == _recordBusActivity(mm, now)
      cf == IF m1.d.consecutiveFailures < MaxU8
            THEN m1.d.consecutiveFailures + 1 ELSE m1.d.consecutiveFailures
  IN  IF ~m1.d.initialized
      THEN IF IsOk(st)
           THEN [m1 EXCEPT !.d.lastOkMs = now]
           ELSE [m1 EXCEPT !.d.lastError = st, !.d.lastErrorMs = now]
      ELSE IF IsOk(st)
           THEN [m1 EXCEPT !.d.lastOkMs = now,
                           !.d.totalSuccess = SatInc32(@),
                           !.d.consecutiveFailures = 0,
                           !.d.driverState = "READY"]
           ELSE [m1 EXCEPT !.d.lastError = st,
                           !.d.lastErrorMs = now,
                           !.d.totalFailures = SatInc32(@),
                           !.d.consecutiveFailures = cf,
                           !.d.driverState =
                              IF cf >= m1.d.config.offlineThreshold
                              THEN "OFFLINE" ELSE "DEGRADED"]

\* ------------------------------------------------------------------------
\* Transport wrappers
\* ------------------------------------------------------------------------
_i2cWriteReadRaw(mm, tx, rxLen) ==
  IF ~mm.d.config.i2cWriteRead
  THEN [m |-> mm, st |-> Error("INVALID_CONFIG", 0), buf |-> [i \in 1..rxLen |-> 0]]
  ELSE i2cWriteRead(mm, mm.d.config.i2cAddress, tx, rxLen)

_i2cWriteRaw(mm, buf) ==
  IF ~mm.d.config.i2cWrite
  THEN Ret(mm, Error("INVALID_CONFIG", 0))
  ELSE i2cWrite(mm, mm.d.config.i2cAddress, buf)

_i2cWriteRawAddr(mm, addr, buf) ==
  IF ~mm.d.config.i2cWrite
  THEN Ret(mm, Error("INVALID_CONFIG", 0))
  ELSE i2cWrite(mm, addr, buf)

_i2cWriteRawAddrTracked(mm, addr, buf) ==
  IF Len(buf) = 0 THEN Ret(mm, Error("INVALID_PARAM", 0))
  ELSE Only({ IF r.st.code \in {"INVALID_CONFIG", "INVALID_PARAM"} THEN r
              ELSE Ret(Annotate(mm, _updateHealth(r.m, r.st), FALSE, r.st.code), r.st)
              : r \in {_i2cWriteRawAddr(mm, addr, buf)} })

_i2cWriteReadTracked(mm, tx, rxLen) ==
  Only({ IF r.st.code \in {"INVALID_CONFIG", "INVALID_PARAM"} THEN r
         ELSE [m |-> Annotate(mm, _updateHealth(r.m, r.st), FALSE, r.st.code),
               st |-> r.st, buf |-> r.buf]
         : r \in {_i2cWriteReadRaw(mm, tx, rxLen)} })

\* the expected-NACK case forgotten: every outcome goes to the health tracker
_i2cWriteReadTrackedNackCounted(mm, tx, rxLen, allowNoData) ==
  Only({ IF r.st.code \in {"INVALID_CONFIG", "INVALID_PARAM"} THEN r
         ELSE [m |-> Annotate(mm, _updateHealth(r.m, r.st), allowNoData, r.st.code),
               st |-> r.st, buf |-> r.buf]
         : r \in {_i2cWriteReadRaw(mm, tx, rxLen)} })

\* the expected NACK reported as MEASUREMENT_NOT_READY but counted as a failure
_i2cWriteReadTrackedNotReadyCounted(mm, tx, rxLen, allowNoData) ==
  Only({ IF r.st.code \in {"INVALID_CONFIG", "INVALID_PARAM"} THEN r
         ELSE IF allowNoData
                 /\ hasCapability(mm.d.config.transportCapabilities, "READ_HEADER_NACK")
                 /\ r.st.code = "I2C_NACK_READ" /\ Len(tx) = 0 /\ rxLen > 0
         THEN [m |-> Annotate(mm, _updateHealth(r.m, r.st), allowNoData,
                              "MEASUREMENT_NOT_READY"),
               st |-> Error("MEASUREMENT_NOT_READY", r.st.detail), buf |-> r.buf]
         ELSE [m |-> Annotate(mm, _updateHealth(r.m, r.st), allowNoData, r.st.code),
               st |-> r.st, buf |-> r.buf]
         : r \in {_i2cWriteReadRaw(mm, tx, rxLen)} })

_i2cWriteReadTrackedAllowNoData(mm, tx, rxLen, allowNoData) ==
  Only({ IF r.st.code \in {"INVALID_CONFIG", "INVALID_PARAM"} THEN r
         ELSE IF allowNoData
                 /\ hasCapability(mm.d.config.transportCapabilities, "READ_HEADER_NACK")
                 /\ r.st.code = "I2C_NACK_READ" /\ Len(tx) = 0 /\ rxLen > 0
         THEN [m |-> Annotate(mm, _recordBusActivity(r.m, r.m.ms), allowNoData,
                              "MEASUREMENT_NOT_READY"),
               st |-> Error("MEASUREMENT_NOT_READY", r.st.detail), buf |-> r.buf]
         ELSE [m |-> Annotate(mm, _updateHealth(r.m, r.st), allowNoData, r.st.code),
               st |-> r.st, buf |-> r.buf]
         : r \in {_i2cWriteReadRaw(mm, tx, rxLen)} })

\* a tracked write that reports only its successes to the health tracker
_i2cWriteTrackedOkOnly(mm, buf) ==
  IF Len(buf) = 0 THEN Ret(mm, Error("INVALID_PARAM", 0))
  ELSE Only({ IF ~IsOk(r.st) THEN r
              ELSE Ret(Annotate(mm, _updateHealth(r.m, r.st), FALSE, r.st.code), r.st)
              : r \in {_i2cWriteRaw(mm, buf)} })

_i2cWriteTracked(mm, buf) ==
  IF Len(buf) = 0 THEN Ret(mm, Error("INVALID_PARAM", 0))
  ELSE Only({ IF r.st.code \in {"INVALID_CONFIG", "INVALID_PARAM"} THEN r
              ELSE Ret(Annotate(mm, _updateHealth(r.m, r.st), FALSE, r.st.code), r.st)
              : r \in {_i2cWriteRaw(mm, buf)} })

\* ------------------------------------------------------------------------
\* Timing gate.  The spin loops either see the clocks reach the target
\* (both clocks advance by the remaining time) or, when the environment
\* stalls the clocks, hit the spin cap and return TIMEOUT.
\* ------------------------------------------------------------------------
AdvanceClocks(mm, ms) ==
  [mm EXCEPT !.ms = Add32(@, U32(ms)), !.us = Add32(@, U32(ms * 1000)),
             !.waited = @ + ms]

_ensureCommandDelay(mm) ==
  IF mm.d.lastCommandUs = Zero32 THEN Ret(mm, Ok)
  ELSE LET delayUs == U32(mm.d.config.commandDelayMs * 1000)
           target == Add32(mm.d.lastCommandUs, delayUs)
       IN  IF _timeElapsed(mm.us, target) THEN Ret(mm, Ok)
           ELSE IF mm.env.stall THEN Ret(mm, Error("TIMEOUT", 0))
           ELSE Ret(AdvanceClocks(mm, (Nat32(Sub32(target, mm.us)) + 999) \div 1000), Ok)

_waitMs(mm, delayMs) ==
  IF delayMs = 0 THEN Ret(mm, Ok)
  ELSE IF mm.env.stall THEN Ret(mm, Error("TIMEOUT", 0))
  ELSE Ret(AdvanceClocks(mm, delayMs), Ok)

\* ------------------------------------------------------------------------
\* Command engine
\* ------------------------------------------------------------------------
_writeCommand(mm, cmd, tracked) ==
  Only({ IF ~IsOk(g.st) THEN g
         ELSE Only({ IF ~IsOk(w.st) THEN w
                     ELSE Ret([w.m EXCEPT !.d.lastCommandUs = w.m.us], Ok)
                     : w \in {IF tracked THEN _i2cWriteTracked(g.m, Word(cmd))
                              ELSE _i2cWriteRaw(g.m, Word(cmd))} })
         : g \in {_ensureCommandDelay(mm)} })

_writeCommandWithData(mm, cmd, data, tracked) ==
  Only({ IF ~IsOk(g.st) THEN g
         ELSE Only({ IF ~IsOk(w.st) THEN w
                     ELSE Ret([w.m EXCEPT !.d.lastCommandUs = w.m.us], Ok)
                     : w \in {IF tracked
                              THEN _i2cWriteTracked(g.m, Word(cmd) \o WithCrc(data))
                              ELSE _i2cWriteRaw(g.m, Word(cmd) \o WithCrc(data))} })
         : g \in {_ensureCommandDelay(mm)} })

\* a read that sends the fetch command and reads in one combined transfer
_readOnlyCombined(mm, len, tracked, allowNoData) ==
  IF len = 0
  THEN [m |-> mm, st |-> Error("INVALID_PARAM", 0), buf |-> <<>>]
  ELSE IF tracked
  THEN IF allowNoData
       THEN _i2cWriteReadTrackedAllowNoData(mm, Word(CMD_FETCH_DATA), len, TRUE)
       ELSE _i2cWriteReadTracked(mm, Word(CMD_FETCH_DATA), len)
  ELSE _i2cWriteReadRaw(mm, Word(CMD_FETCH_DATA), len)

_readOnly(mm, len, tracked, allowNoData) ==
  IF len = 0
  THEN [m |-> mm, st |-> Error("INVALID_PARAM", 0), buf |-> <<>>]
  ELSE IF tracked
  THEN IF allowNoData
       THEN _i2cWriteReadTrackedAllowNoData(mm, <<>>, len, TRUE)
       ELSE _i2cWriteReadTracked(mm, <<>>, len)
  ELSE _i2cWriteReadRaw(mm, <<>>, len)

\* a read that always asks for the not-ready translation
_readAfterCommandAllowNoData(mm, len, tracked, allowNoData) ==
  IF len = 0
  THEN [m |-> mm, st |-> Error("INVALID_PARAM", 0), buf |-> <<>>]
  ELSE Only({ IF ~IsOk(g.st)
              THEN [m |-> g.m, st |-> g.st, buf |-> [i \in 1..len |-> 0]]
              ELSE _readOnly(g.m, len, tracked, TRUE)
              : g \in {_ensureCommandDelay(mm)} })

_readAfterCommand(mm, len, tracked, allowNoData) ==
  IF len = 0
  THEN [m |-> mm, st |-> Error("INVALID_PARAM", 0), buf |-> <<>>]
  ELSE Only({ IF ~IsOk(g.st)
              THEN [m |-> g.m, st |-> g.st, buf |-> [i \in 1..len |-> 0]]
              ELSE _readOnly(g.m, len, tracked, allowNoData)
              : g \in {_ensureCommandDelay(mm)} })

_readStatusRaw(mm, tracked) ==
  Only({ IF ~IsOk(w.st) THEN [m |-> w.m, st |-> w.st, raw |-> 0]
         ELSE Only({ IF ~IsOk(r.st) THEN [m |-> r.m, st |-> r.st, raw |-> 0]
                     ELSE IF _crc8(SubSeq(r.buf, 1, 2)) # r.buf[3]
                     THEN [m |-> r.m, st |-> Error("CRC_MISMATCH", 0), raw |-> 0]
                     ELSE [m |-> r.m, st |-> Ok, raw |-> r.buf[1] * 256 + r.buf[2]]
                     : r \in {_readAfterCommand(w.m, STATUS_DATA_LEN, tracked, FALSE)} })
         : w \in {_writeCommand(mm, CMD_READ_STATUS, tracked)} })

\* the humidity word's CRC left unchecked
_readMeasurementRawTempCrcOnly(mm, tracked, allowNoData) ==
  Only({ IF ~IsOk(r.st) THEN Ret(r.m, r.st)
         ELSE IF _crc8(SubSeq(r.buf, 1, 2)) # r.buf[3]
         THEN Ret(r.m, Error("CRC_MISMATCH", 0))
         ELSE Ret([r.m EXCEPT !.d.rawSample =
                     [rawTemperature |-> r.buf[1] * 256 + r.buf[2],
                      rawHumidity |-> r.buf[4] * 256 + r.buf[5]]], Ok)
         : r \in {_readAfterCommand(mm, MEASUREMENT_DATA_LEN, tracked, allowNoData)} })

\* a read that stores the two words before it has checked their CRCs
_readMeasurementRawStoredUnchecked(mm, tracked, allowNoData) ==
  Only({ IF ~IsOk(r.st) THEN Ret(r.m, r.st)
         ELSE IF _crc8(SubSeq(r.buf, 1, 2)) # r.buf[3]
                 \/ _crc8(SubSeq(r.buf, 4, 5)) # r.buf[6]
         THEN Ret([r.m EXCEPT !.d.rawSample =
                     [rawTemperature |-> r.buf[1] * 256 + r.buf[2],
                      rawHumidity |-> r.buf[4] * 256 + r.buf[5]]],
                  Error("CRC_MISMATCH", 0))
         ELSE Ret([r.m EXCEPT !.d.rawSample =
                     [rawTemperature |-> r.buf[1] * 256 + r.buf[2],
                      rawHumidity |-> r.buf[4] * 256 + r.buf[5]]], Ok)
         : r \in {_readAfterCommand(mm, MEASUREMENT_DATA_LEN, tracked, allowNoData)} })

_readMeasurementRaw(mm, tracked, allowNoData) ==
  Only({ IF ~IsOk(r.st) THEN Ret(r.m, r.st)
         ELSE IF _crc8(SubSeq(r.buf, 1, 2)) # r.buf[3]
         THEN Ret(r.m, Error("CRC_MISMATCH", 0))
         ELSE IF _crc8(SubSeq(r.buf, 4, 5)) # r.buf[6]
         THEN Ret(r.m, Error("CRC_MISMATCH", 0))
         ELSE Ret([r.m EXCEPT !.d.rawSample =
                     [rawTemperature |-> r.buf[1] * 256 + r.buf[2],
                      rawHumidity |-> r.buf[4] * 256 + r.buf[5]]], Ok)
         : r \in {_readAfterCommand(mm, MEASUREMENT_DATA_LEN, tracked, allowNoData)} })

\* ------------------------------------------------------------------------
\* Configuration and the driver object
\* ------------------------------------------------------------------------
DefaultConfig ==
  [i2cWrite |-> FALSE, i2cWriteRead |-> FALSE, busReset |-> FALSE, hardReset |-> FALSE,
   i2cAddress |-> 68, i2cTimeoutMs |-> 50, transportCapabilities |-> {},
   repeatability |-> "HIGH_REPEATABILITY", clockStretching |-> "STRETCH_DISABLED",
   periodicRate |-> "MPS_1", mode |-> "SINGLE_SHOT", lowVdd |-> FALSE,
   commandDelayMs |-> 1, notReadyTimeoutMs |-> 0, periodicFetchMarginMs |-> 0,
   recoverBackoffMs |-> 100, offlineThreshold |-> 5,
   allowGeneralCallReset |-> FALSE, recoverUseBusReset |-> TRUE,
   recoverUseSoftReset |-> TRUE, recoverUseHardReset |-> TRUE]

NoSample == [rawTemperature |-> 0, rawHumidity |-> 0]

NoComp == [tempC_x100 |-> 0, humidityPct_x100 |-> 0]

Constructed ==
  [config |-> DefaultConfig, initialized |-> FALSE, driverState |-> "UNINIT",
   lastOkMs |-> Zero32, lastErrorMs |-> Zero32, lastBusActivityMs |-> Zero32,
   lastError |-> Ok, consecutiveFailures |-> 0,
   totalFailures |-> Zero32, totalSuccess |-> Zero32,
   lastCommandUs |-> Zero32,
   measurementRequested |-> FALSE, measurementReady |-> FALSE,
   measurementReadyMs |-> Zero32, periodicStartMs |-> Zero32, lastFetchMs |-> Zero32,
   periodMs |-> Zero32, sampleTimestampMs |-> Zero32, missedSamples |-> Zero32,
   notReadyStartMs |-> Zero32, notReadyCount |-> Zero32, lastRecoverMs |-> Zero32,
   rawSample |-> NoSample, compSample |-> NoComp,
   mode |-> "SINGLE_SHOT", periodicActive |-> FALSE]

\* struct CachedSettings as constructed
DefaultCached ==
  [mode |-> "SINGLE_SHOT", repeatability |-> "HIGH_REPEATABILITY",
   periodicRate |-> "MPS_1", clockStretching |-> "STRETCH_DISABLED",
   heaterEnabled |-> FALSE,
   alertValid |-> [k \in 0..3 |-> FALSE], alertRaw |-> [k \in 0..3 |-> 0]]

estimateMeasurementTimeMs(d) ==
  baseMeasurementMs(d.config.repeatability, d.config.lowVdd) + MEASUREMENT_MARGIN_MS

\* the humidity conversion left out
CompensateTemperatureOnly(mm) ==
  [mm EXCEPT !.d.compSample.tempC_x100 =
     convertTemperatureC_x100(mm.d.rawSample.rawTemperature)]

Compensate(mm) ==
  [mm EXCEPT !.d.compSample =
     [tempC_x100 |-> convertTemperatureC_x100(mm.d.rawSample.rawTemperature),
      humidityPct_x100 |-> convertHumidityPct_x100(mm.d.rawSample.rawHumidity)]]

\* ------------------------------------------------------------------------
\* Periodic helpers
\* ------------------------------------------------------------------------
\* the stream bookkeeping cleared when periodic mode is left
streamCleared(mm) ==
  [mm EXCEPT !.d.mode = "SINGLE_SHOT", !.d.config.mode = "SINGLE_SHOT",
             !.d.periodicStartMs = Zero32, !.d.lastFetchMs = Zero32,
             !.d.periodMs = Zero32, !.d.notReadyStartMs = Zero32,
             !.d.notReadyCount = Zero32, !.d.missedSamples = Zero32]

\* a stop that drops the periodic flag and nothing else
_stopPeriodicInternalFlagOnly(mm) ==
  IF ~mm.d.periodicActive
  THEN Ret(streamCleared(mm), Ok)
  ELSE Only({ IF ~IsOk(w.st) THEN w
              ELSE Only({ IF ~IsOk(t.st) THEN t
                          ELSE Ret([t.m EXCEPT !.d.periodicActive = FALSE], Ok)
                          : t \in {_waitMs(w.m, BREAK_DELAY_MS)} })
              : w \in {_writeCommand(mm, CMD_BREAK, TRUE)} })

_stopPeriodicInternal(mm) ==
  IF ~mm.d.periodicActive
  THEN Ret(streamCleared(mm), Ok)
  ELSE Only({ IF ~IsOk(w.st) THEN w
              ELSE Only({ IF ~IsOk(t.st) THEN t
                          ELSE Ret([streamCleared(t.m) EXCEPT
                                      !.d.measurementRequested = FALSE,
                                      !.d.measurementReady = FALSE,
                                      !.d.measurementReadyMs = Zero32,
                                      !.d.periodicActive = FALSE], Ok)
                          : t \in {_waitMs(w.m, BREAK_DELAY_MS)} })
              : w \in {_writeCommand(mm, CMD_BREAK, TRUE)} })

\* the stream state set once the start command has been written
streamStarted(mm, rate, rep, art) ==
  [mm EXCEPT !.d.measurementRequested = FALSE,
             !.d.measurementReady = FALSE,
             !.d.measurementReadyMs = Zero32,
             !.d.periodicActive = TRUE,
             !.d.notReadyStartMs = Zero32,
             !.d.notReadyCount = Zero32,
             !.d.missedSamples = Zero32,
             !.d.mode = IF art THEN "ART" ELSE "PERIODIC",
             !.d.config.mode = IF art THEN "ART" ELSE "PERIODIC",
             !.d.periodicStartMs = mm.ms,
             !.d.lastFetchMs = Zero32,
             !.d.config.periodicRate = IF art THEN @ ELSE rate,
             !.d.config.repeatability = IF art THEN @ ELSE rep,
             !.d.periodMs = IF art THEN U32(ART_PERIOD_MS)
                            ELSE U32(_periodMsForRate(rate))]

\* a start that records the new mode before the start command is written
_enterPeriodicModeFirst(mm, rate, rep, art) ==
  IF ~isValidPeriodicRate(rate) \/ ~isValidRepeatability(rep)
  THEN Ret(mm, Error("INVALID_PARAM", 0))
  ELSE Only({ IF ~IsOk(s.st) THEN s
              ELSE Only({ IF ~IsOk(w.st)
                          THEN Ret([w.m EXCEPT !.d.mode = IF art THEN "ART" ELSE "PERIODIC"],
                                   w.st)
                          ELSE Ret(streamStarted(w.m, rate, rep, art), Ok)
                          : w \in {_writeCommand(s.m,
                                     IF art THEN CMD_ART
                                     ELSE _commandForPeriodic(rep, rate), TRUE)} })
              : s \in {IF mm.d.periodicActive THEN _stopPeriodicInternal(mm)
                       ELSE Ret(mm, Ok)} })

_enterPeriodic(mm, rate, rep, art) ==
  IF ~isValidPeriodicRate(rate) \/ ~isValidRepeatability(rep)
  THEN Ret(mm, Error("INVALID_PARAM", 0))
  ELSE Only({ IF ~IsOk(s.st) THEN s
              ELSE IF (IF art THEN CMD_ART ELSE _commandForPeriodic(rep, rate)) = 0
              THEN Ret(s.m, Error("INVALID_PARAM", 0))
              ELSE Only({ IF ~IsOk(w.st) THEN w
                          ELSE Ret(streamStarted(w.m, rate, rep, art), Ok)
                          : w \in {_writeCommand(s.m,
                                     IF art THEN CMD_ART
                                     ELSE _commandForPeriodic(rep, rate), TRUE)} })
              : s \in {IF mm.d.periodicActive THEN _stopPeriodicInternal(mm)
                       ELSE Ret(mm, Ok)} })

\* allowNoData for the fetch read: the capability, withdrawn once a streak
\* of not-ready answers has outlasted notReadyTimeoutMs
fetchAllowNoData(mm) ==
  IF hasCapability(mm.d.config.transportCapabilities, "READ_HEADER_NACK")
     /\ mm.d.config.notReadyTimeoutMs > 0
     /\ mm.d.notReadyStartMs # Zero32
     /\ _timeElapsed(mm.ms, Add32(mm.d.notReadyStartMs,
                                  U32(mm.d.config.notReadyTimeoutMs)))
  THEN FALSE
  ELSE hasCapability(mm.d.config.transportCapabilities, "READ_HEADER_NACK")

\* the fetch read and its bookkeeping; now is millis() before the read
fetchRead(mm, now) ==
  Only({ IF r.st.code = "MEASUREMENT_NOT_READY"
         THEN Ret([r.m EXCEPT !.d.notReadyStartMs = IF @ = Zero32 THEN now ELSE @,
                              !.d.notReadyCount = SatInc32(@)], r.st)
         ELSE IF ~IsOk(r.st)
         THEN Ret([r.m EXCEPT !.d.notReadyStartMs = Zero32,
                              !.d.notReadyCount = Zero32], r.st)
         ELSE Ret(Compensate([r.m EXCEPT !.d.notReadyStartMs = Zero32,
                                         !.d.notReadyCount = Zero32]), Ok)
         : r \in {_readMeasurementRaw(mm, TRUE, fetchAllowNoData(mm))} })

_fetchPeriodic(mm) ==
  IF ~mm.d.periodicActive THEN Ret(mm, Error("INVALID_PARAM", 0))
  ELSE Only({ IF ~IsOk(w.st) THEN w ELSE fetchRead(w.m, w.m.ms)
              : w \in {_writeCommand(mm, CMD_FETCH_DATA, TRUE)} })

\* a single shot that soft-resets a sensor it does not hold to be READY
_startSingleShotAfterReset(mm) ==
  IF mm.d.periodicActive THEN Ret(mm, Error("BUSY", 0))
  ELSE IF _commandForSingleShot(mm.d.config.repeatability,
                                mm.d.config.clockStretching) = 0
  THEN Ret(mm, Error("INVALID_PARAM", 0))
  ELSE Only({ _writeCommand(w.m, _commandForSingleShot(mm.d.config.repeatability,
                                                       mm.d.config.clockStretching), TRUE)
              : w \in {IF mm.d.driverState = "READY" THEN Ret(mm, Ok)
                       ELSE _writeCommand(mm, CMD_SOFT_RESET, TRUE)} })

_startSingleShot(mm) ==
  IF mm.d.periodicActive THEN Ret(mm, Error("BUSY", 0))
  ELSE IF _commandForSingleShot(mm.d.config.repeatability,
                                mm.d.config.clockStretching) = 0
  THEN Ret(mm, Error("INVALID_PARAM", 0))
  ELSE _writeCommand(mm, _commandForSingleShot(mm.d.config.repeatability,
                                               mm.d.config.clockStretching), TRUE)

\* begin() that keeps the failure streak of an earlier session
beginResetKeepsFailures(mm) ==
  [mm EXCEPT !.d.initialized = FALSE, !.d.driverState = "UNINIT",
             !.d.lastOkMs = Zero32, !.d.lastErrorMs = Zero32,
             !.d.lastBusActivityMs = Zero32, !.d.lastError = Ok,
             !.d.totalFailures = Zero32, !.d.totalSuccess = Zero32,
             !.d.measurementRequested = FALSE, !.d.measurementReady = FALSE,
             !.d.measurementReadyMs = Zero32, !.d.periodicStartMs = Zero32,
             !.d.lastFetchMs = Zero32, !.d.periodMs = Zero32,
             !.d.sampleTimestampMs = Zero32, !.d.missedSamples = Zero32,
             !.d.notReadyStartMs = Zero32, !.d.notReadyCount = Zero32,
             !.d.lastRecoverMs = Zero32,
             !.d.rawSample = NoSample, !.d.compSample = NoComp,
             !.d.mode = "SINGLE_SHOT", !.d.periodicActive = FALSE,
             !.d.lastCommandUs = Zero32]

\* ------------------------------------------------------------------------
\* Public API (operators on the machine; the actions below call them)
\* ------------------------------------------------------------------------
\* the object as begin() resets it before looking at the configuration
beginReset(mm) ==
  [mm EXCEPT !.d.initialized = FALSE, !.d.driverState = "UNINIT",
             !.d.lastOkMs = Zero32, !.d.lastErrorMs = Zero32,
             !.d.lastBusActivityMs = Zero32, !.d.lastError = Ok,
             !.d.consecutiveFailures = 0,
             !.d.totalFailures = Zero32, !.d.totalSuccess = Zero32,
             !.d.measurementRequested = FALSE, !.d.measurementReady = FALSE,
             !.d.measurementReadyMs = Zero32, !.d.periodicStartMs = Zero32,
             !.d.lastFetchMs = Zero32, !.d.periodMs = Zero32,
             !.d.sampleTimestampMs = Zero32, !.d.missedSamples = Zero32,
             !.d.notReadyStartMs = Zero32, !.d.notReadyCount = Zero32,
             !.d.lastRecoverMs = Zero32,
             !.d.rawSample = NoSample, !.d.compSample = NoComp,
             !.d.mode = "SINGLE_SHOT", !.d.periodicActive = FALSE,
             !.d.lastCommandUs = Zero32]

\* the configuration as begin() stores it
beginConfig(config) ==
  [config EXCEPT !.offlineThreshold = IF @ = 0 THEN 1 ELSE @,
                 !.commandDelayMs = IF @ < MIN_COMMAND_DELAY_MS
                                    THEN MIN_COMMAND_DELAY_MS ELSE @]

\* begin() once the device has answered the probe: apply the configured mode
beginMode(mm) ==
  Only({ IF ~IsOk(e.st) THEN e
         ELSE Ret([e.m EXCEPT !.d.initialized = TRUE, !.d.driverState = "READY"], Ok)
         : e \in {IF mm.d.config.mode = "PERIODIC"
                  THEN _enterPeriodic(mm, mm.d.config.periodicRate,
                                      mm.d.config.repeatability, FALSE)
                  ELSE IF mm.d.config.mode = "ART"
                  THEN _enterPeriodic(mm, mm.d.config.periodicRate,
                                      mm.d.config.repeatability, TRUE)
                  ELSE Ret(mm, Ok)} })

begin(mm, config) ==
  IF ~config.i2cWrite \/ ~config.i2cWriteRead
  THEN Ret(beginReset(mm), Error("INVALID_CONFIG", 0))
  ELSE IF config.i2cTimeoutMs = 0
  THEN Ret(beginReset(mm), Error("INVALID_CONFIG", 0))
  ELSE IF config.i2cAddress # I2C_ADDR_LOW /\ config.i2cAddress # I2C_ADDR_HIGH
  THEN Ret(beginReset(mm), Error("INVALID_CONFIG", 0))
  ELSE IF ~isValidRepeatability(config.repeatability)
          \/ ~isValidClockStretching(config.clockStretching)
          \/ ~isValidPeriodicRate(config.periodicRate)
          \/ ~isValidMode(config.mode)
  THEN Ret(beginReset(mm), Error("INVALID_CONFIG", 0))
  ELSE Only({ IF ~IsOk(p.st)
              THEN IF isI2cFailure(p.st.code)
                   THEN Ret(p.m, Error("DEVICE_NOT_FOUND", p.st.detail))
                   ELSE Ret(p.m, p.st)
              ELSE beginMode([p.m EXCEPT !.d.mode = p.m.d.config.mode])
              : p \in {_readStatusRaw([beginReset(mm) EXCEPT
                                         !.d.config = beginConfig(config)], TRUE)} })

\* static_cast<int32_t>(nowMs - _measurementReadyMs) < 0
notDueUnsigned(nowMs, readyMs) == Gt32(readyMs, nowMs)

notDue(nowMs, readyMs) == IsNeg32(Sub32(nowMs, readyMs))

\* the time of the next attempt after a not-ready answer
retryAtNow(nowMs, commandDelayMs) == nowMs

retryAt(nowMs, commandDelayMs) == Add32(nowMs, U32(commandDelayMs))

\* periods that went by unfetched since the last fetch, added to the counter
countMissed(mm, nowMs) ==
  IF mm.d.lastFetchMs # Zero32 /\ Gt32(mm.d.periodMs, Zero32)
     /\ Gt32(Sub32(nowMs, mm.d.lastFetchMs), mm.d.periodMs)
     /\ Gt32(Div32(Sub32(nowMs, mm.d.lastFetchMs), Nat32(mm.d.periodMs)), Zero32)
  THEN [mm EXCEPT !.d.missedSamples =
          Add32(@, Sub32(Div32(Sub32(nowMs, mm.d.lastFetchMs), Nat32(mm.d.periodMs)),
                         U32(1)))]
  ELSE mm

\* tick() returns void; st is the status of the read or fetch it attempted
\* ("NONE" when it returned before attempting one).
tick(mm, nowMs) ==
  IF ~mm.d.initialized \/ ~mm.d.measurementRequested
  THEN Ret(mm, [code |-> "NONE", detail |-> 0])
  ELSE IF mm.d.mode = "SINGLE_SHOT"
  THEN IF notDue(nowMs, mm.d.measurementReadyMs)
       THEN Ret(mm, [code |-> "NONE", detail |-> 0])
       ELSE Only({ IF ~IsOk(r.st) THEN r
                   ELSE Ret([Compensate(r.m) EXCEPT
                               !.d.sampleTimestampMs = nowMs,
                               !.d.measurementReady = TRUE,
                               !.d.measurementRequested = FALSE], Ok)
                   : r \in {_readMeasurementRaw(mm, TRUE, FALSE)} })
  ELSE IF mm.d.mode \in {"PERIODIC", "ART"}
  THEN IF notDue(nowMs, mm.d.measurementReadyMs)
       THEN Ret(mm, [code |-> "NONE", detail |-> 0])
       ELSE Only({ IF ~IsOk(f.st)
                   THEN IF f.st.code = "MEASUREMENT_NOT_READY"
                        THEN Ret([f.m EXCEPT !.d.measurementReadyMs =
                                    retryAt(nowMs, f.m.d.config.commandDelayMs)], f.st)
                        ELSE f
                   ELSE Ret([countMissed(f.m, nowMs) EXCEPT
                               !.d.measurementReady = TRUE,
                               !.d.measurementRequested = FALSE,
                               !.d.lastFetchMs = nowMs,
                               !.d.sampleTimestampMs = nowMs], Ok)
                   : f \in {_fetchPeriodic(mm)} })
  ELSE Ret(mm, [code |-> "NONE", detail |-> 0])

\* an end() that also forgets the running stream
endForgetsStream(mm) ==
  Ret([mm EXCEPT !.d.initialized = FALSE, !.d.driverState = "UNINIT",
                 !.d.periodicActive = FALSE], Ok)

end(mm) == Ret([mm EXCEPT !.d.initialized = FALSE, !.d.driverState = "UNINIT"], Ok)

probe(mm) ==
  IF ~mm.d.initialized THEN Ret(mm, Error("NOT_INITIALIZED", 0))
  ELSE Only({ IF ~IsOk(p.st)
              THEN IF isI2cFailure(p.st.code)
                   THEN Ret(p.m, Error("DEVICE_NOT_FOUND", p.st.detail))
                   ELSE Ret(p.m, p.st)
              ELSE Ret(p.m, Ok)
              : p \in {_readStatusRaw(mm, FALSE)} })

\* the time of the next periodic fetch: one measurement time after the
\* stream started, then one period after the last fetch, never before now
periodicReadyMs(d, now) ==
  IF d.lastFetchMs = Zero32
  THEN IF ~IsNeg32(Sub32(now, Add32(d.periodicStartMs,
                                    U32(estimateMeasurementTimeMs(d)))))
       THEN now
       ELSE Add32(d.periodicStartMs, U32(estimateMeasurementTimeMs(d)))
  ELSE IF ~IsNeg32(Sub32(now, Add32(d.lastFetchMs, d.periodMs)))
       THEN now
       ELSE Add32(d.lastFetchMs, d.periodMs)

\* a request that leaves the ready flag of the previous sample set
requestMeasurementKeepsReady(mm) ==
  IF ~mm.d.initialized THEN Ret(mm, Error("NOT_INITIALIZED", 0))
  ELSE IF mm.d.measurementRequested /\ ~mm.d.measurementReady
  THEN Ret(mm, Error("BUSY", 0))
  ELSE IF mm.d.mode = "SINGLE_SHOT"
  THEN Only({ IF ~IsOk(s.st) THEN s
              ELSE Ret([s.m EXCEPT !.d.measurementRequested = TRUE,
                                   !.d.measurementReadyMs =
                                      Add32(s.m.ms, U32(estimateMeasurementTimeMs(mm.d)))],
                       Error("IN_PROGRESS", 0))
              : s \in {_startSingleShot(mm)} })
  ELSE IF mm.d.mode \in {"PERIODIC", "ART"}
  THEN IF ~mm.d.periodicActive
       THEN Ret(mm, Error("INVALID_PARAM", 0))
       ELSE Ret([mm EXCEPT !.d.measurementRequested = TRUE,
                           !.d.measurementReadyMs = periodicReadyMs(mm.d, mm.ms)],
                Error("IN_PROGRESS", 0))
  ELSE Ret(mm, Error("INVALID_PARAM", 0))

\* a request that does not look at the pending measurement
requestMeasurementUnguarded(mm) ==
  IF ~mm.d.initialized THEN Ret(mm, Error("NOT_INITIALIZED", 0))
  ELSE IF mm.d.mode = "SINGLE_SHOT"
  THEN Only({ IF ~IsOk(s.st) THEN s
              ELSE Ret([s.m EXCEPT !.d.measurementRequested = TRUE,
                                   !.d.measurementReadyMs =
                                      Add32(s.m.ms, U32(estimateMeasurementTimeMs(mm.d)))],
                       Error("IN_PROGRESS", 0))
              : s \in {_startSingleShot([mm EXCEPT !.d.measurementReady = FALSE])} })
  ELSE IF mm.d.mode \in {"PERIODIC", "ART"}
  THEN IF ~mm.d.periodicActive
       THEN Ret([mm EXCEPT !.d.measurementReady = FALSE], Error("INVALID_PARAM", 0))
       ELSE Ret([mm EXCEPT !.d.measurementReady = FALSE,
                           !.d.measurementRequested = TRUE,
                           !.d.measurementReadyMs = periodicReadyMs(mm.d, mm.ms)],
                Error("IN_PROGRESS", 0))
  ELSE Ret([mm EXCEPT !.d.measurementReady = FALSE], Error("INVALID_PARAM", 0))

\* a request that is refused while the driver holds the sensor to be OFFLINE
requestMeasurementOnlineOnly(mm) ==
  IF ~mm.d.initialized THEN Ret(mm, Error("NOT_INITIALIZED", 0))
  ELSE IF mm.d.driverState = "OFFLINE" THEN Ret(mm, Error("DEVICE_NOT_FOUND", 0))
  ELSE IF mm.d.measurementRequested /\ ~mm.d.measurementReady
  THEN Ret(mm, Error("BUSY", 0))
  ELSE IF mm.d.mode = "SINGLE_SHOT"
  THEN Only({ IF ~IsOk(s.st) THEN s
              ELSE Ret([s.m EXCEPT !.d.measurementRequested = TRUE,
                                   !.d.measurementReadyMs =
                                      Add32(s.m.ms, U32(estimateMeasurementTimeMs(mm.d)))],
                       Error("IN_PROGRESS", 0))
              : s \in {_startSingleShot([mm EXCEPT !.d.measurementReady = FALSE])} })
  ELSE IF mm.d.mode \in {"PERIODIC", "ART"}
  THEN IF ~mm.d.periodicActive
       THEN Ret([mm EXCEPT !.d.measurementReady = FALSE], Error("INVALID_PARAM", 0))
       ELSE Ret([mm EXCEPT !.d.measurementReady = FALSE,
                           !.d.measurementRequested = TRUE,
                           !.d.measurementReadyMs = periodicReadyMs(mm.d, mm.ms)],
                Error("IN_PROGRESS", 0))
  ELSE Ret([mm EXCEPT !.d.measurementReady = FALSE], Error("INVALID_PARAM", 0))

\* a request that drops the ready flag only once the trigger has been written
requestMeasurementReadyKept(mm) ==
  IF ~mm.d.initialized THEN Ret(mm, Error("NOT_INITIALIZED", 0))
  ELSE IF mm.d.measurementRequested /\ ~mm.d.measurementReady
  THEN Ret(mm, Error("BUSY", 0))
  ELSE IF mm.d.mode = "SINGLE_SHOT"
  THEN Only({ IF ~IsOk(s.st) THEN s
              ELSE Ret([s.m EXCEPT !.d.measurementReady = FALSE,
                                   !.d.measurementRequested = TRUE,
                                   !.d.measurementReadyMs =
                                      Add32(s.m.ms, U32(estimateMeasurementTimeMs(mm.d)))],
                       Error("IN_PROGRESS", 0))
              : s \in {_startSingleShot(mm)} })
  ELSE IF mm.d.mode \in {"PERIODIC", "ART"}
  THEN IF ~mm.d.periodicActive
       THEN Ret(mm, Error("INVALID_PARAM", 0))
       ELSE Ret([mm EXCEPT !.d.measurementReady = FALSE,
                           !.d.measurementRequested = TRUE,
                           !.d.measurementReadyMs = periodicReadyMs(mm.d, mm.ms)],
                Error("IN_PROGRESS", 0))
  ELSE Ret(mm, Error("INVALID_PARAM", 0))

requestMeasurement(mm) ==
  IF ~mm.d.initialized THEN Ret(mm, Error("NOT_INITIALIZED", 0))
  ELSE IF mm.d.measurementRequested /\ ~mm.d.measurementReady
  THEN Ret(mm, Error("BUSY", 0))
  ELSE IF mm.d.mode = "SINGLE_SHOT"
  THEN Only({ IF ~IsOk(s.st) THEN s
              ELSE Ret([s.m EXCEPT !.d.measurementRequested = TRUE,
                                   !.d.measurementReadyMs =
                                      Add32(s.m.ms, U32(estimateMeasurementTimeMs(mm.d)))],
                       Error("IN_PROGRESS", 0))
              : s \in {_startSingleShot([mm EXCEPT !.d.measurementReady = FALSE])} })
  ELSE IF mm.d.mode \in {"PERIODIC", "ART"}
  THEN IF ~mm.d.periodicActive
       THEN Ret([mm EXCEPT !.d.measurementReady = FALSE], Error("INVALID_PARAM", 0))
       ELSE Ret([mm EXCEPT !.d.measurementReady = FALSE,
                           !.d.measurementRequested = TRUE,
                           !.d.measurementReadyMs = periodicReadyMs(mm.d, mm.ms)],
                Error("IN_PROGRESS", 0))
  ELSE Ret([mm EXCEPT !.d.measurementReady = FALSE], Error("INVALID_PARAM", 0))

\* a read-out that leaves the ready flag set
getMeasurementKeepsReady(mm) ==
  IF ~mm.d.initialized THEN Ret(mm, Error("NOT_INITIALIZED", 0))
  ELSE IF ~mm.d.measurementReady THEN Ret(mm, Error("MEASUREMENT_NOT_READY", 0))
  ELSE Ret(mm, Ok)

getMeasurement(mm) ==
  IF ~mm.d.initialized THEN Ret(mm, Error("NOT_INITIALIZED", 0))
  ELSE IF ~mm.d.measurementReady THEN Ret(mm, Error("MEASUREMENT_NOT_READY", 0))
  ELSE Ret([mm EXCEPT !.d.measurementReady = FALSE], Ok)

startPeriodic(mm, rate, rep) ==
  IF ~mm.d.initialized THEN Ret(mm, Error("NOT_INITIALIZED", 0))
  ELSE IF ~isValidPeriodicRate(rate) \/ ~isValidRepeatability(rep)
  THEN Ret(mm, Error("INVALID_PARAM", 0))
  ELSE _enterPeriodic(mm, rate, rep, FALSE)

startArt(mm) ==
  IF ~mm.d.initialized THEN Ret(mm, Error("NOT_INITIALIZED", 0))
  ELSE _enterPeriodic(mm, mm.d.config.periodicRate, mm.d.config.repeatability, TRUE)

stopPeriodic(mm) ==
  IF ~mm.d.initialized THEN Ret(mm, Error("NOT_INITIALIZED", 0))
  ELSE _stopPeriodicInternal(mm)

\* a mode change that does not look at the pending measurement
setModeUnguarded(mm, mode) ==
  IF ~mm.d.initialized THEN Ret(mm, Error("NOT_INITIALIZED", 0))
  ELSE IF ~isValidMode(mode) THEN Ret(mm, Error("INVALID_PARAM", 0))
  ELSE IF mode = mm.d.mode THEN Ret(mm, Ok)
  ELSE IF mode = "SINGLE_SHOT"
  THEN Only({ IF ~IsOk(s.st) THEN s
              ELSE Ret([s.m EXCEPT !.d.mode = "SINGLE_SHOT",
                                   !.d.config.mode = "SINGLE_SHOT"], Ok)
              : s \in {stopPeriodic(mm)} })
  ELSE IF mode = "PERIODIC"
  THEN startPeriodic(mm, mm.d.config.periodicRate, mm.d.config.repeatability)
  ELSE startArt(mm)

setMode(mm, mode) ==
  IF ~mm.d.initialized THEN Ret(mm, Error("NOT_INITIALIZED", 0))
  ELSE IF mm.d.measurementRequested /\ ~mm.d.measurementReady
  THEN Ret(mm, Error("BUSY", 0))
  ELSE IF ~isValidMode(mode) THEN Ret(mm, Error("INVALID_PARAM", 0))
  ELSE IF mode = mm.d.mode THEN Ret(mm, Ok)
  ELSE IF mode = "SINGLE_SHOT"
  THEN Only({ IF ~IsOk(s.st) THEN s
              ELSE Ret([s.m EXCEPT !.d.mode = "SINGLE_SHOT",
                                   !.d.config.mode = "SINGLE_SHOT"], Ok)
              : s \in {stopPeriodic(mm)} })
  ELSE IF mode = "PERIODIC"
  THEN startPeriodic(mm, mm.d.config.periodicRate, mm.d.config.repeatability)
  ELSE startArt(mm)

setRepeatability(mm, rep) ==
  IF ~mm.d.initialized THEN Ret(mm, Error("NOT_INITIALIZED", 0))
  ELSE IF mm.d.measurementRequested /\ ~mm.d.measurementReady
  THEN Ret(mm, Error("BUSY", 0))
  ELSE IF ~isValidRepeatability(rep) THEN Ret(mm, Error("INVALID_PARAM", 0))
  ELSE IF mm.d.mode = "PERIODIC"
  THEN startPeriodic([mm EXCEPT !.d.config.repeatability = rep],
                     mm.d.config.periodicRate, rep)
  ELSE Ret([mm EXCEPT !.d.config.repeatability = rep], Ok)

setPeriodicRate(mm, rate) ==
  IF ~mm.d.initialized THEN Ret(mm, Error("NOT_INITIALIZED", 0))
  ELSE IF mm.d.measurementRequested /\ ~mm.d.measurementReady
  THEN Ret(mm, Error("BUSY", 0))
  ELSE IF ~isValidPeriodicRate(rate) THEN Ret(mm, Error("INVALID_PARAM", 0))
  ELSE IF mm.d.mode = "PERIODIC"
  THEN startPeriodic([mm EXCEPT !.d.config.periodicRate = rate],
                     rate, mm.d.config.repeatability)
  ELSE Ret([mm EXCEPT !.d.config.periodicRate = rate], Ok)

\* a status read that is refused while a measurement has been requested
readStatusWhenIdle(mm) ==
  IF ~mm.d.initialized THEN Ret(mm, Error("NOT_INITIALIZED", 0))
  ELSE IF mm.d.periodicActive \/ mm.d.measurementRequested
  THEN Ret(mm, Error("BUSY", 0))
  ELSE Only({ Ret(p.m, p.st) : p \in {_readStatusRaw(mm, TRUE)} })

readStatus(mm) ==
  IF ~mm.d.initialized THEN Ret(mm, Error("NOT_INITIALIZED", 0))
  ELSE IF mm.d.periodicActive THEN Ret(mm, Error("BUSY", 0))
  ELSE Only({ Ret(p.m, p.st) : p \in {_readStatusRaw(mm, TRUE)} })

setHeater(mm, enable) ==
  IF ~mm.d.initialized THEN Ret(mm, Error("NOT_INITIALIZED", 0))
  ELSE IF mm.d.periodicActive THEN Ret(mm, Error("BUSY", 0))
  ELSE _writeCommand(mm, IF enable THEN CMD_HEATER_ENABLE ELSE CMD_HEATER_DISABLE, TRUE)

setClockStretching(mm, stretch) ==
  IF ~mm.d.initialized THEN Ret(mm, Error("NOT_INITIALIZED", 0))
  ELSE IF mm.d.measurementRequested /\ ~mm.d.measurementReady
  THEN Ret(mm, Error("BUSY", 0))
  ELSE IF ~isValidClockStretching(stretch) THEN Ret(mm, Error("INVALID_PARAM", 0))
  ELSE Ret([mm EXCEPT !.d.config.clockStretching = stretch], Ok)

writeAlertLimitRaw(mm, kind, value) ==
  IF ~mm.d.initialized THEN Ret(mm, Error("NOT_INITIALIZED", 0))
  ELSE IF mm.d.periodicActive THEN Ret(mm, Error("BUSY", 0))
  ELSE IF _commandForAlertWrite(kind) = 0 THEN Ret(mm, Error("INVALID_PARAM", 0))
  ELSE Only({ IF ~IsOk(w.st) THEN w
              ELSE Only({ IF ~IsOk(p.st) THEN Ret(p.m, p.st)
                          ELSE IF (p.raw \div STATUS_WRITE_CRC_ERROR) % 2 = 1
                          THEN Ret(p.m, Error("WRITE_CRC_ERROR", 0))
                          ELSE IF (p.raw \div STATUS_COMMAND_ERROR) % 2 = 1
                          THEN Ret(p.m, Error("COMMAND_FAILED", 0))
                          ELSE Ret(p.m, Ok)
                          : p \in {_readStatusRaw(w.m, TRUE)} })
              : w \in {_writeCommandWithData(mm, _commandForAlertWrite(kind),
                                             value, TRUE)} })

clearStatus(mm) ==
  IF ~mm.d.initialized THEN Ret(mm, Error("NOT_INITIALIZED", 0))
  ELSE IF mm.d.periodicActive THEN Ret(mm, Error("BUSY", 0))
  ELSE _writeCommand(mm, CMD_CLEAR_STATUS, TRUE)

\* the serial number read is returned in `serial` (two 16-bit words)
readSerialNumber(mm, stretch) ==
  IF ~mm.d.initialized
  THEN [m |-> mm, st |-> Error("NOT_INITIALIZED", 0), serial |-> Zero32]
  ELSE IF mm.d.periodicActive
  THEN [m |-> mm, st |-> Error("BUSY", 0), serial |-> Zero32]
  ELSE IF ~isValidClockStretching(stretch)
  THEN [m |-> mm, st |-> Error("INVALID_PARAM", 0), serial |-> Zero32]
  ELSE Only({ IF ~IsOk(w.st) THEN [m |-> w.m, st |-> w.st, serial |-> Zero32]
              ELSE Only({ IF ~IsOk(r.st)
                          THEN [m |-> r.m, st |-> r.st, serial |-> Zero32]
                          ELSE IF _crc8(SubSeq(r.buf, 1, 2)) # r.buf[3]
                          THEN [m |-> r.m, st |-> Error("CRC_MISMATCH", 0),
                                serial |-> Zero32]
                          ELSE IF _crc8(SubSeq(r.buf, 4, 5)) # r.buf[6]
                          THEN [m |-> r.m, st |-> Error("CRC_MISMATCH", 0),
                                serial |-> Zero32]
                          ELSE [m |-> r.m, st |-> Ok,
                                serial |-> <<r.buf[1] * 256 + r.buf[2],
                                             r.buf[4] * 256 + r.buf[5]>>]
                          : r \in {_readAfterCommand(w.m, SERIAL_DATA_LEN, TRUE, FALSE)} })
              : w \in {_writeCommand(mm, IF stretch = "STRETCH_ENABLED"
                                         THEN CMD_SERIAL_STRETCH
                                         ELSE CMD_SERIAL_NO_STRETCH, TRUE)} })

\* the limit read is returned in `value`
readAlertLimitRaw(mm, kind) ==
  IF ~mm.d.initialized
  THEN [m |-> mm, st |-> Error("NOT_INITIALIZED", 0), value |-> 0]
  ELSE IF mm.d.periodicActive
  THEN [m |-> mm, st |-> Error("BUSY", 0), value |-> 0]
  ELSE IF _commandForAlertRead(kind) = 0
  THEN [m |-> mm, st |-> Error("INVALID_PARAM", 0), value |-> 0]
  ELSE Only({ IF ~IsOk(w.st) THEN [m |-> w.m, st |-> w.st, value |-> 0]
              ELSE Only({ IF ~IsOk(r.st) THEN [m |-> r.m, st |-> r.st, value |-> 0]
                          ELSE IF _crc8(SubSeq(r.buf, 1, 2)) # r.buf[3]
                          THEN [m |-> r.m, st |-> Error("CRC_MISMATCH", 0), value |-> 0]
                          ELSE [m |-> r.m, st |-> Ok,
                                value |-> r.buf[1] * 256 + r.buf[2]]
                          : r \in {_readAfterCommand(w.m, ALERT_DATA_LEN, TRUE, FALSE)} })
              : w \in {_writeCommand(mm, _commandForAlertRead(kind), TRUE)} })

\* ------------------------------------------------------------------------
\* Resets and the recovery ladder
\* ------------------------------------------------------------------------
Callback(mm, kind, code) ==
  Ret([mm EXCEPT !.io = Append(@, LogEntry(mm, kind, 0, <<>>, <<>>, code))],
      IF code = "OK" THEN Ok ELSE Error(code, Len(mm.io) + 1))

softReset(mm) ==
  IF ~mm.d.initialized THEN Ret(mm, Error("NOT_INITIALIZED", 0))
  ELSE IF mm.d.periodicActive THEN Ret(mm, Error("BUSY", 0))
  ELSE Only({ IF ~IsOk(w.st) THEN w
              ELSE Only({ IF ~IsOk(t.st) THEN t
                          ELSE Ret([t.m EXCEPT !.d.measurementRequested = FALSE,
                                               !.d.measurementReady = FALSE,
                                               !.d.mode = "SINGLE_SHOT",
                                               !.d.config.mode = "SINGLE_SHOT",
                                               !.d.periodicActive = FALSE,
                                               !.d.periodicStartMs = Zero32,
                                               !.d.lastFetchMs = Zero32,
                                               !.d.periodMs = Zero32,
                                               !.d.sampleTimestampMs = Zero32,
                                               !.d.missedSamples = Zero32,
                                               !.d.notReadyStartMs = Zero32,
                                               !.d.notReadyCount = Zero32], Ok)
                          : t \in {_waitMs(w.m, RESET_DELAY_MS)} })
              : w \in {_writeCommand(mm, CMD_SOFT_RESET, TRUE)} })

interfaceReset(mm) ==
  IF ~mm.d.initialized THEN Ret(mm, Error("NOT_INITIALIZED", 0))
  ELSE IF ~mm.d.config.busReset THEN Ret(mm, Error("UNSUPPORTED", 0))
  ELSE Only({ IF ~IsOk(c.st) THEN c
              ELSE Ret([c.m EXCEPT !.d.measurementRequested = FALSE,
                                   !.d.measurementReady = FALSE,
                                   !.d.measurementReadyMs = Zero32,
                                   !.d.lastFetchMs = Zero32,
                                   !.d.sampleTimestampMs = Zero32,
                                   !.d.missedSamples = Zero32,
                                   !.d.notReadyStartMs = Zero32,
                                   !.d.notReadyCount = Zero32,
                                   !.d.periodicStartMs =
                                      IF c.m.d.periodicActive THEN c.m.ms ELSE @], Ok)
              : c \in {Callback(mm, "busReset", mm.env.busReset)} })

\* a general-call reset that does not ask the configuration
generalCallResetUnguarded(mm) ==
  IF ~mm.d.initialized THEN Ret(mm, Error("NOT_INITIALIZED", 0))
  ELSE Only({ IF ~IsOk(g.st) THEN g
         ELSE Only({ IF ~IsOk(w.st) THEN w
                ELSE Only({ IF ~IsOk(t.st) THEN t
                            ELSE Ret([t.m EXCEPT !.d.measurementRequested = FALSE,
                                                 !.d.measurementReady = FALSE,
                                                 !.d.measurementReadyMs = Zero32,
                                                 !.d.mode = "SINGLE_SHOT",
                                                 !.d.config.mode = "SINGLE_SHOT",
                                                 !.d.periodicActive = FALSE,
                                                 !.d.periodicStartMs = Zero32,
                                                 !.d.lastFetchMs = Zero32,
                                                 !.d.periodMs = Zero32,
                                                 !.d.sampleTimestampMs = Zero32,
                                                 !.d.missedSamples = Zero32,
                                                 !.d.notReadyStartMs = Zero32,
                                                 !.d.notReadyCount = Zero32], Ok)
                            : t \in {_waitMs([w.m EXCEPT !.d.lastCommandUs = w.m.us],
                                             RESET_DELAY_MS)} })
                : w \in {_i2cWriteRawAddrTracked(g.m, GENERAL_CALL_ADDR,
                                                 <<GENERAL_CALL_RESET_BYTE>>)} })
         : g \in {_ensureCommandDelay(mm)} })

generalCallReset(mm) ==
  IF ~mm.d.initialized THEN Ret(mm, Error("NOT_INITIALIZED", 0))
  ELSE IF ~mm.d.config.allowGeneralCallReset THEN Ret(mm, Error("INVALID_CONFIG", 0))
  ELSE Only({ IF ~IsOk(g.st) THEN g
         ELSE Only({ IF ~IsOk(w.st) THEN w
                ELSE Only({ IF ~IsOk(t.st) THEN t
                            ELSE Ret([t.m EXCEPT !.d.measurementRequested = FALSE,
                                                 !.d.measurementReady = FALSE,
                                                 !.d.measurementReadyMs = Zero32,
                                                 !.d.mode = "SINGLE_SHOT",
                                                 !.d.config.mode = "SINGLE_SHOT",
                                                 !.d.periodicActive = FALSE,
                                                 !.d.periodicStartMs = Zero32,
                                                 !.d.lastFetchMs = Zero32,
                                                 !.d.periodMs = Zero32,
                                                 !.d.sampleTimestampMs = Zero32,
                                                 !.d.missedSamples = Zero32,
                                                 !.d.notReadyStartMs = Zero32,
                                                 !.d.notReadyCount = Zero32], Ok)
                            : t \in {_waitMs([w.m EXCEPT !.d.lastCommandUs = w.m.us],
                                             RESET_DELAY_MS)} })
                : w \in {_i2cWriteRawAddrTracked(g.m, GENERAL_CALL_ADDR,
                                                 <<GENERAL_CALL_RESET_BYTE>>)} })
         : g \in {_ensureCommandDelay(mm)} })

probeTracked(mm) == Only({ Ret(p.m, p.st) : p \in {_readStatusRaw(mm, TRUE)} })

\* the baseline without the periodic flag and the mode
setSafeBaselineKeepsMode(mm) ==
  [mm EXCEPT !.d.measurementRequested = FALSE, !.d.measurementReady = FALSE,
             !.d.measurementReadyMs = Zero32,
             !.d.periodicStartMs = Zero32, !.d.lastFetchMs = Zero32,
             !.d.periodMs = Zero32, !.d.sampleTimestampMs = Zero32,
             !.d.missedSamples = Zero32, !.d.notReadyStartMs = Zero32,
             !.d.notReadyCount = Zero32]

setSafeBaseline(mm) ==
  [mm EXCEPT !.d.measurementRequested = FALSE, !.d.measurementReady = FALSE,
             !.d.measurementReadyMs = Zero32, !.d.periodicActive = FALSE,
             !.d.periodicStartMs = Zero32, !.d.lastFetchMs = Zero32,
             !.d.periodMs = Zero32, !.d.sampleTimestampMs = Zero32,
             !.d.missedSamples = Zero32, !.d.notReadyStartMs = Zero32,
             !.d.notReadyCount = Zero32, !.d.mode = "SINGLE_SHOT",
             !.d.config.mode = "SINGLE_SHOT"]

\* A ladder step yields [m, last, done]: done means recover() returns `last` now.
Step(mm, lst, dn) == [m |-> mm, last |-> lst, done |-> dn]

\* the probe of a ladder that keeps going after a successful probe
probeStepContinues(mm) ==
  Only({ IF IsOk(p.st) THEN Step(setSafeBaseline(p.m), Ok, FALSE)
         ELSE Step(p.m, p.st, FALSE)
         : p \in {probeTracked(mm)} })

\* the probe that follows a reset step; success ends the ladder
probeStep(mm) ==
  Only({ IF IsOk(p.st) THEN Step(setSafeBaseline(p.m), Ok, TRUE)
         ELSE Step(p.m, p.st, FALSE)
         : p \in {probeTracked(mm)} })

recoverBusStep(mm, lastSt) ==
  IF mm.d.config.recoverUseBusReset /\ mm.d.config.busReset
  THEN Only({ IF ~IsOk(r.st) THEN Step(r.m, r.st, FALSE) ELSE probeStep(r.m)
              : r \in {interfaceReset(mm)} })
  ELSE Step(mm, lastSt, FALSE)

\* a soft-reset step that reports the error it was handed, not its own
recoverSoftStepFirstError(mm, lastSt) ==
  IF mm.d.config.recoverUseSoftReset
  THEN Only({ IF ~IsOk(s.st) THEN Step(s.m, lastSt, FALSE)
              ELSE Only({ IF ~IsOk(r.st) THEN Step(r.m, lastSt, FALSE)
                          ELSE Only({ IF p.done THEN p ELSE Step(p.m, lastSt, FALSE)
                                      : p \in {probeStep(r.m)} })
                          : r \in {softReset(s.m)} })
              : s \in {IF mm.d.periodicActive THEN _stopPeriodicInternal(mm)
                       ELSE Ret(mm, Ok)} })
  ELSE Step(mm, lastSt, FALSE)

recoverSoftStep(mm, lastSt) ==
  IF mm.d.config.recoverUseSoftReset
  THEN Only({ IF ~IsOk(s.st) THEN Step(s.m, s.st, FALSE)
              ELSE Only({ IF ~IsOk(r.st) THEN Step(r.m, r.st, FALSE)
                          ELSE probeStep(r.m)
                          : r \in {softReset(s.m)} })
              : s \in {IF mm.d.periodicActive THEN _stopPeriodicInternal(mm)
                       ELSE Ret(mm, Ok)} })
  ELSE Step(mm, lastSt, FALSE)

recoverHardStep(mm, lastSt) ==
  IF mm.d.config.recoverUseHardReset /\ mm.d.config.hardReset
  THEN Only({ IF ~IsOk(c.st) THEN Step(c.m, c.st, FALSE)
              ELSE Only({ IF ~IsOk(t.st) THEN Step(t.m, t.st, TRUE)
                          ELSE probeStep(t.m)
                          : t \in {_waitMs(c.m, RESET_DELAY_MS)} })
              : c \in {Callback(mm, "hardReset", mm.env.hardReset)} })
  ELSE Step(mm, lastSt, FALSE)

recoverGeneralCallStep(mm, lastSt) ==
  IF mm.d.config.allowGeneralCallReset
  THEN Only({ IF ~IsOk(r.st) THEN Step(r.m, r.st, FALSE) ELSE probeStep(r.m)
              : r \in {generalCallReset(mm)} })
  ELSE Step(mm, lastSt, FALSE)

\* the ladder of recover(), entered once the back-off has passed
recoverLadder(mm) ==
       Only({ IF s1.done THEN Ret(s1.m, s1.last)
         ELSE Only({ IF s2.done THEN Ret(s2.m, s2.last)
                ELSE Only({ IF s3.done THEN Ret(s3.m, s3.last)
                       ELSE Only({ Ret(s4.m, s4.last)
                                   : s4 \in {recoverGeneralCallStep(s3.m, s3.last)} })
                       : s3 \in {recoverHardStep(s2.m, s2.last)} })
                : s2 \in {recoverSoftStep(s1.m, s1.last)} })
         : s1 \in {recoverBusStep([mm EXCEPT !.d.lastRecoverMs = mm.ms],
                                  Error("I2C_ERROR", 0))} })
\* recover() without the back-off test
recoverNoBackoff(mm) ==
  IF ~mm.d.initialized THEN Ret(mm, Error("NOT_INITIALIZED", 0))
  ELSE recoverLadder(mm)
recover(mm) ==
  IF ~mm.d.initialized THEN Ret(mm, Error("NOT_INITIALIZED", 0))
  ELSE IF mm.d.config.recoverBackoffMs > 0
          /\ ~_timeElapsed(mm.ms, Add32(mm.d.lastRecoverMs,
                                        U32(mm.d.config.recoverBackoffMs)))
  THEN Ret(mm, Error("BUSY", 0))
  ELSE recoverLadder(mm)

\* ------------------------------------------------------------------------
\* Cached settings and the two resets built on the ladder
\* ------------------------------------------------------------------------
\* the measurement settings the driver is running with
appliedSettings(c, d) ==
  [c EXCEPT !.mode = d.mode, !.repeatability = d.config.repeatability,
            !.periodicRate = d.config.periodicRate,
            !.clockStretching = d.config.clockStretching]

\* a cache that takes the new value whether or not the call succeeded
cachedAfterAlways(c, op, arg, r) ==
  CASE op = "begin" -> appliedSettings(DefaultCached, r.m.d)
    [] op \in {"setMode", "startPeriodic", "startArt", "stopPeriodic",
               "setRepeatability", "setPeriodicRate"} -> appliedSettings(c, r.m.d)
    [] op = "setHeater" -> [c EXCEPT !.heaterEnabled = (arg[2] = 1)]
    [] op = "writeAlertLimitRaw" ->
         [c EXCEPT !.alertValid[arg[1]] = TRUE, !.alertRaw[arg[1]] = arg[2]]
    [] op = "resetToDefaults" -> DefaultCached
    [] OTHER -> c

\* the cache after a call: updated only when the apply operation succeeded
cachedAfter(c, op, arg, r) ==
  IF ~IsOk(r.st) THEN c
  ELSE CASE op = "begin" -> appliedSettings(DefaultCached, r.m.d)
         [] op \in {"setMode", "startPeriodic", "startArt", "stopPeriodic",
                    "setRepeatability", "setPeriodicRate"} -> appliedSettings(c, r.m.d)
         [] op = "setHeater" -> [c EXCEPT !.heaterEnabled = (arg[2] = 1)]
         [] op = "writeAlertLimitRaw" ->
              [c EXCEPT !.alertValid[arg[1]] = TRUE, !.alertRaw[arg[1]] = arg[2]]
         [] op = "resetToDefaults" -> DefaultCached
         [] OTHER -> c

resetToDefaults(mm) == recover(mm)

restoreAlert(r, c, kind) ==
  Only({ IF ~IsOk(v.st) \/ ~c.alertValid[kind] THEN v
         ELSE writeAlertLimitRaw(v.m, kind, c.alertRaw[kind])
         : v \in {r} })

\* a restore that leaves the mode alone
_applyCachedSettingsNoMode(mm, c) ==
  Only({ IF ~IsOk(a.st) THEN a ELSE
    Only({ IF ~IsOk(b.st) THEN b ELSE
      Only({ IF ~IsOk(e.st) THEN e ELSE
        Only({ IF ~IsOk(h.st) THEN h
               ELSE restoreAlert(restoreAlert(restoreAlert(restoreAlert(
                      Ret(h.m, Ok), c, 0), c, 1), c, 2), c, 3)
          : h \in {setHeater(e.m, c.heaterEnabled)} })
        : e \in {setPeriodicRate(b.m, c.periodicRate)} })
      : b \in {setClockStretching(a.m, c.clockStretching)} })
    : a \in {setRepeatability(mm, c.repeatability)} })

_applyCachedSettingsAfterReset(mm, c) ==
  Only({ IF ~IsOk(a.st) THEN a ELSE
    Only({ IF ~IsOk(b.st) THEN b ELSE
      Only({ IF ~IsOk(e.st) THEN e ELSE
        Only({ IF ~IsOk(h.st) THEN h ELSE
          Only({ IF ~IsOk(l.st) THEN l
                 ELSE IF c.mode = "PERIODIC"
                 THEN startPeriodic(l.m, c.periodicRate, c.repeatability)
                 ELSE IF c.mode = "ART" THEN startArt(l.m)
                 ELSE Ret(l.m, Ok)
                 : l \in {restoreAlert(restoreAlert(restoreAlert(restoreAlert(
                            Ret(h.m, Ok), c, 0), c, 1), c, 2), c, 3)} })
          : h \in {setHeater(e.m, c.heaterEnabled)} })
        : e \in {setPeriodicRate(b.m, c.periodicRate)} })
      : b \in {setClockStretching(a.m, c.clockStretching)} })
    : a \in {setRepeatability(mm, c.repeatability)} })

resetAndRestore(mm, c) ==
  Only({ IF ~IsOk(r.st) THEN r ELSE _applyCachedSettingsAfterReset(r.m, c)
         : r \in {recover(mm)} })

\* ------------------------------------------------------------------------
\* Bounds and input sets
\* ------------------------------------------------------------------------
\* offsets (ms since power-up) at which the host may call the driver
Grid == {10, 20}

\* API calls made by the host in one run
MaxOps == 4

\* of which calls during which the bus or the clock misbehaves
MaxFaults == 2

\* clock values at power-up: zero, and 10 ms before the 32-bit wrap
BootClocks ==
  { [ms |-> Zero32, us |-> Zero32],
    [ms |-> Sub32(Zero32, U32(10)), us |-> Sub32(Zero32, U32(10000))] }

RdOk(data) == [code |-> "OK", data |-> data]

RdErr(c) == [code |-> c, data |-> <<>>]

BadCrc(frame, i) == [frame EXCEPT ![i] = (@ + 1) % 256]

MeasOutcomes ==
  { RdOk(BadCrc(GoodFrame, 6)), RdOk(BadCrc(GoodFrame, 1)),
    RdErr("I2C_NACK_READ"), RdErr("I2C_TIMEOUT") }

StatusOutcomes == { RdOk(BadCrc(GoodFrame, 3)), RdErr("I2C_TIMEOUT") }

\* what a read of the status register, the serial number or a limit may meet
WordOutcomes ==
  { RdOk(BadCrc(GoodFrame, 3)), RdErr("I2C_NACK_READ"), RdErr("I2C_TIMEOUT") }

\* the status read that verifies a limit write: time-out, or an error bit set
AlertOutcomes ==
  { RdErr("I2C_TIMEOUT"), RdOk(WithCrc(32784 + STATUS_WRITE_CRC_ERROR)),
    RdOk(WithCrc(32784 + STATUS_COMMAND_ERROR)) }

Rep(n, x) == [i \in 1..n |-> x]

FailAt(k) == Rep(k - 1, "OK") \o <<"I2C_NACK_ADDR">>

Env(wr, rd, stall, busRst, hardRst) ==
  [wr |-> wr, rd |-> rd, stall |-> stall, busReset |-> busRst, hardReset |-> hardRst]

\* transport behaviours of one call: scripted faults with running clocks,
\* or a healthy bus with stalled clocks
Quiet == Env(<<>>, <<>>, FALSE, "OK", "OK")

Faulty(WrScripts, RdScripts) ==
  { Env(w, <<>>, FALSE, "OK", "OK") : w \in WrScripts }
    \cup { Env(<<>>, r, FALSE, "OK", "OK") : r \in RdScripts }
    \cup { Env(<<>>, <<>>, TRUE, "OK", "OK") }

\* configurations the host passes to begin()
ConfigA ==
  [DefaultConfig EXCEPT !.i2cWrite = TRUE, !.i2cWriteRead = TRUE,
                        !.periodicRate = "MPS_10", !.mode = "PERIODIC",
                        !.repeatability = "LOW_REPEATABILITY",
                        !.transportCapabilities = {"READ_HEADER_NACK"},
                        !.offlineThreshold = 2, !.notReadyTimeoutMs = 5,
                        !.recoverBackoffMs = 0, !.busReset = TRUE]

ConfigB ==
  [DefaultConfig EXCEPT !.i2cWrite = TRUE, !.i2cWriteRead = TRUE,
                        !.periodicRate = "MPS_10",
                        !.offlineThreshold = 0, !.commandDelayMs = 0,
                        !.recoverBackoffMs = 15, !.hardReset = TRUE,
                        !.allowGeneralCallReset = TRUE]

ConfigInvalid == [DefaultConfig EXCEPT !.i2cWrite = TRUE]

Configs == {ConfigA, ConfigB, ConfigInvalid}

\* ------------------------------------------------------------------------
\* State
\* ------------------------------------------------------------------------
VARIABLES drv, gMillis, gMicros, elapsed, last, notReadySince, ops, faults,
          cachedSettings

vars ==
  <<drv, gMillis, gMicros, elapsed, last, notReadySince, ops, faults, cachedSettings>>

Machine(env) ==
  [d |-> drv, ms |-> gMillis, us |-> gMicros, io |-> <<>>, nw |-> 0, nr |-> 0,
   waited |-> 0, env |-> env]

Budget == ops < MaxOps

\* the behaviours the environment may show during the next call
Envs(F) == {Quiet} \cup (IF faults < MaxFaults THEN F ELSE {})

\* first NOT_READY answer of a streak: remember the fetch time
Since(r) ==
  IF drv.notReadyCount = Zero32 /\ r.m.d.notReadyCount # Zero32
  THEN r.m.io[Len(r.m.io)].ms ELSE notReadySince

Commit(op, arg, r) ==
  /\ drv' = r.m.d
  /\ gMillis' = r.m.ms
  /\ gMicros' = r.m.us
  /\ elapsed' = elapsed + r.m.waited
  /\ last' = [op |-> op, arg |-> arg, st |-> r.st, io |-> r.m.io,
               before |-> [op |-> last.op, arg |-> last.arg, code |-> last.st.code,
                           io |-> last.io # <<>>]]
  /\ notReadySince' = Since(r)
  /\ ops' = ops + 1
  /\ faults' = IF r.m.env = Quiet THEN faults ELSE faults + 1
  /\ cachedSettings' = cachedAfter(cachedSettings, op, arg, r)

Init ==
  /\ drv = Constructed
  /\ \E c \in BootClocks : gMillis = c.ms /\ gMicros = c.us
  /\ elapsed = 0
  /\ last = [op |-> "new", arg |-> Zero32, st |-> Ok, io |-> <<>>,
             before |-> [op |-> "new", arg |-> Zero32, code |-> "OK", io |-> FALSE]]
  /\ notReadySince = Zero32
  /\ ops = 0
  /\ faults = 0
  /\ cachedSettings = DefaultCached

\* ------------------------------------------------------------------------
\* Actions
\* ------------------------------------------------------------------------
Advance ==
  \E t \in Grid :
    /\ t > elapsed
    /\ elapsed' = t
    /\ gMillis' = Add32(gMillis, U32(t - elapsed))
    /\ gMicros' = Add32(gMicros, U32((t - elapsed) * 1000))
    /\ UNCHANGED <<drv, last, notReadySince, ops, faults, cachedSettings>>

WriteFaults(n) == {FailAt(k) : k \in 1..n}

Begin ==
  /\ Budget
  /\ ~drv.initialized
  /\ \E config \in Configs,
        env \in Envs(Faulty(WriteFaults(2), {<<o>> : o \in StatusOutcomes})) :
       Commit("begin", Zero32, begin(Machine(env), config))

End ==
  /\ Budget
  /\ drv.initialized
  /\ Commit("end", Zero32, end(Machine(Quiet)))

Tick ==
  /\ Budget
  /\ \E now \in {gMillis} \cup (IF last.op = "tick" THEN {last.arg} ELSE {}),
        env \in Envs(Faulty(WriteFaults(1), {<<o>> : o \in MeasOutcomes})) :
       Commit("tick", now, tick(Machine(env), now))

RequestMeasurement ==
  /\ Budget
  /\ \E env \in Envs(Faulty(WriteFaults(1), {})) :
       Commit("requestMeasurement", Zero32, requestMeasurement(Machine(env)))

GetMeasurement ==
  /\ Budget
  /\ Commit("getMeasurement", Zero32, getMeasurement(Machine(Quiet)))

StartPeriodic ==
  /\ Budget
  /\ \E env \in Envs(Faulty(WriteFaults(2), {})) :
       Commit("startPeriodic", Zero32,
              startPeriodic(Machine(env), "MPS_10", drv.config.repeatability))

StartArt ==
  /\ Budget
  /\ \E env \in Envs(Faulty(WriteFaults(2), {})) :
       Commit("startArt", Zero32, startArt(Machine(env)))

StopPeriodic ==
  /\ Budget
  /\ \E env \in Envs(Faulty(WriteFaults(1), {})) :
       Commit("stopPeriodic", Zero32, stopPeriodic(Machine(env)))

Probe ==
  /\ Budget
  /\ \E env \in Envs(Faulty(WriteFaults(1), {<<o>> : o \in StatusOutcomes})) :
       Commit("probe", Zero32, probe(Machine(env)))

ReadStatus ==
  /\ Budget
  /\ \E env \in Envs(Faulty(WriteFaults(1), {<<o>> : o \in WordOutcomes})) :
       Commit("readStatus", Zero32, readStatus(Machine(env)))

SetHeater ==
  /\ Budget
  /\ \E env \in Envs(Faulty(WriteFaults(1), {})) :
       Commit("setHeater", U32(1), setHeater(Machine(env), TRUE))

SetMode ==
  /\ Budget
  /\ \E mode \in Modes, env \in Envs(Faulty(WriteFaults(2), {})) :
       Commit("setMode", Zero32, setMode(Machine(env), mode))

SetRepeatability ==
  /\ Budget
  /\ \E rep \in {"MEDIUM_REPEATABILITY", "HIGH_REPEATABILITY"}, env \in Envs(Faulty(WriteFaults(2), {})) :
       Commit("setRepeatability", Zero32, setRepeatability(Machine(env), rep))

SetPeriodicRate ==
  /\ Budget
  /\ \E rate \in {"MPS_2", "MPS_10"}, env \in Envs(Faulty(WriteFaults(2), {})) :
       Commit("setPeriodicRate", Zero32, setPeriodicRate(Machine(env), rate))

\* the limit written is the one of the restore test: HIGH_SET = 0x2222
WriteAlertLimitRaw ==
  /\ Budget
  /\ \E env \in Envs(Faulty(WriteFaults(1), {<<o>> : o \in AlertOutcomes})) :
       Commit("writeAlertLimitRaw", <<0, 8738>>,
              writeAlertLimitRaw(Machine(env), 0, 8738))

\* during recover() the steps' probes may keep failing and the callbacks
\* may report an error
RecoverFaults ==
  Faulty(WriteFaults(2), {Rep(n, RdErr("I2C_TIMEOUT")) : n \in {1, 3}})
    \cup { Env(<<>>, <<>>, FALSE, "I2C_BUS", "I2C_BUS") }

Recover ==
  /\ Budget
  /\ \E env \in Envs(RecoverFaults) :
       Commit("recover", gMillis, recover(Machine(env)))

GeneralCallReset ==
  /\ Budget
  /\ \E env \in Envs(Faulty(WriteFaults(1), {})) :
       Commit("generalCallReset", Zero32, generalCallReset(Machine(env)))

ClearStatus ==
  /\ Budget
  /\ \E env \in Envs(Faulty(WriteFaults(1), {})) :
       Commit("clearStatus", Zero32, clearStatus(Machine(env)))

ReadSerialNumber ==
  /\ Budget
  /\ \E env \in Envs(Faulty(WriteFaults(1), {<<o>> : o \in WordOutcomes})) :
       Commit("readSerialNumber", Zero32,
              readSerialNumber(Machine(env), "STRETCH_DISABLED"))

ReadAlertLimitRaw ==
  /\ Budget
  /\ \E env \in Envs(Faulty(WriteFaults(1), {<<o>> : o \in WordOutcomes})) :
       Commit("readAlertLimitRaw", Zero32, readAlertLimitRaw(Machine(env), 0))

SoftReset ==
  /\ Budget
  /\ \E env \in Envs(Faulty(WriteFaults(1), {})) :
       Commit("softReset", Zero32, softReset(Machine(env)))

ResetToDefaults ==
  /\ Budget
  /\ \E env \in Envs(RecoverFaults) :
       Commit("resetToDefaults", gMillis, resetToDefaults(Machine(env)))

\* besides the ladder's faults, a write of the restore may fail
ResetAndRestore ==
  /\ Budget
  /\ \E env \in Envs(RecoverFaults \cup {Env(FailAt(k), <<>>, FALSE, "OK", "OK") : k \in 3..5}) :
       Commit("resetAndRestore", gMillis,
              resetAndRestore(Machine(env), cachedSettings))

Next ==
  \/ Advance
  \/ Begin
  \/ End
  \/ Tick
  \/ RequestMeasurement
  \/ GetMeasurement
  \/ StartPeriodic
  \/ StartArt
  \/ StopPeriodic
  \/ Probe
  \/ ReadStatus
  \/ SetHeater
  \/ Recover
  \/ SetMode
  \/ SetRepeatability
  \/ SetPeriodicRate
  \/ WriteAlertLimitRaw
  \/ ResetToDefaults
  \/ ResetAndRestore
  \/ GeneralCallReset
  \/ ClearStatus
  \/ ReadSerialNumber
  \/ ReadAlertLimitRaw
  \/ SoftReset

Spec == Init /\ [][Next]_vars

\* a host that only measures
NextMeasure ==
  \/ Advance
  \/ Begin
  \/ Tick
  \/ RequestMeasurement
  \/ GetMeasurement
  \/ StartArt

SpecMeasure == Init /\ [][NextMeasure]_vars

\* a host that measures and recovers
NextRecover ==
  \/ Advance
  \/ Begin
  \/ Tick
  \/ RequestMeasurement
  \/ Recover

SpecRecover == Init /\ [][NextRecover]_vars

\* a host that uses every call, on a clock that starts at zero and moves
\* only while the driver waits
InitHealth == Init /\ gMillis = Zero32

NextHealth ==
  \/ Begin
  \/ End
  \/ Tick
  \/ RequestMeasurement
  \/ GetMeasurement
  \/ StartPeriodic
  \/ StartArt
  \/ StopPeriodic
  \/ Probe
  \/ ReadStatus
  \/ SetHeater
  \/ Recover

SpecHealth == InitHealth /\ [][NextHealth]_vars

\* a host that switches modes and settings, on the same clock
NextMode ==
  \/ Begin
  \/ RequestMeasurement
  \/ SetMode
  \/ SetRepeatability
  \/ SetPeriodicRate
  \/ StartPeriodic
  \/ StartArt
  \/ StopPeriodic

SpecMode == InitHealth /\ [][NextMode]_vars

\* a host that configures the sensor and resets it, starting 20 ms after
\* power-up
InitRestore ==
  /\ drv = Constructed
  /\ gMillis = U32(20)
  /\ gMicros = U32(20000)
  /\ elapsed = 20
  /\ last = [op |-> "new", arg |-> Zero32, st |-> Ok, io |-> <<>>,
             before |-> [op |-> "new", arg |-> Zero32, code |-> "OK", io |-> FALSE]]
  /\ notReadySince = Zero32
  /\ ops = 0
  /\ faults = 0
  /\ cachedSettings = DefaultCached

NextRestore ==
  \/ Begin
  \/ SetHeater
  \/ WriteAlertLimitRaw
  \/ StartArt
  \/ ResetToDefaults
  \/ ResetAndRestore

SpecRestore == InitRestore /\ [][NextRestore]_vars

\* a host that only applies settings
NextCache ==
  \/ Begin
  \/ SetRepeatability
  \/ SetHeater
  \/ WriteAlertLimitRaw
  \/ StartArt
  \/ StopPeriodic

SpecCache == InitHealth /\ [][NextCache]_vars

\* a host that only resets the sensor, from the same start
NextReset ==
  \/ Begin
  \/ StartArt
  \/ Recover
  \/ GeneralCallReset

SpecReset == InitRestore /\ [][NextReset]_vars

\* a host that keeps calling a sensor that may have stopped answering
NextGate ==
  \/ Begin
  \/ RequestMeasurement
  \/ Probe
  \/ ReadStatus
  \/ SetHeater
  \/ StartArt
  \/ StopPeriodic
  \/ Recover

SpecGate == InitHealth /\ [][NextGate]_vars

\* a host that reads the sensor's registers and single-shot measurements,
\* starting 10 ms after power-up
InitRead ==
  /\ drv = Constructed
  /\ gMillis = U32(10)
  /\ gMicros = U32(10000)
  /\ elapsed = 10
  /\ last = [op |-> "new", arg |-> Zero32, st |-> Ok, io |-> <<>>,
             before |-> [op |-> "new", arg |-> Zero32, code |-> "OK", io |-> FALSE]]
  /\ notReadySince = Zero32
  /\ ops = 0
  /\ faults = 0
  /\ cachedSettings = DefaultCached

NextRead ==
  \/ Advance
  \/ Begin
  \/ StopPeriodic
  \/ RequestMeasurement
  \/ Tick
  \/ ReadStatus
  \/ ReadSerialNumber
  \/ ReadAlertLimitRaw

SpecRead == InitRead /\ [][NextRead]_vars

\* a host that reads and writes the sensor's registers around single-shot
\* measurements, on the clock that starts at zero
NextInterleave ==
  \/ Begin
  \/ RequestMeasurement
  \/ Probe
  \/ ReadStatus
  \/ ClearStatus
  \/ SetHeater
  \/ ReadSerialNumber
  \/ ReadAlertLimitRaw
  \/ WriteAlertLimitRaw
  \/ SoftReset
  \/ StartArt

SpecInterleave == InitHealth /\ [][NextInterleave]_vars

\* ------------------------------------------------------------------------
\* Properties
\* ------------------------------------------------------------------------
\* the bus transactions of the latest call
Transactions == {last.io[i] : i \in 1..Len(last.io)}

HasReadHeaderNack == "READ_HEADER_NACK" \in drv.config.transportCapabilities

\* C1: while the driver is initialized, DriverState is READY exactly when
\* consecutive_failures is 0, DEGRADED exactly when
\* 1 <= consecutive_failures < offline_threshold, and OFFLINE exactly when
\* consecutive_failures >= offline_threshold.
C1_StateFollowsFailures ==
  drv.initialized =>
    LET cf == drv.consecutiveFailures
        thr == drv.config.offlineThreshold
    IN  /\ (drv.driverState = "READY") <=> (cf = 0)
        /\ (drv.driverState = "DEGRADED") <=> (1 <= cf /\ cf < thr)
        /\ (drv.driverState = "OFFLINE") <=> (cf >= thr)

\* an initialized driver that went OFFLINE on its second failure in a row
C1_Witness ==
  /\ drv.initialized
  /\ drv.config.offlineThreshold = 2
  /\ drv.consecutiveFailures = 2
  /\ drv.driverState = "OFFLINE"

\* a pure read issued with allow_no_data that the transport answered with
\* a read-header NACK
NackOnAllowedRead(e) ==
  /\ e.k = "r" /\ e.tracked /\ e.allow
  /\ e.tx = <<>> /\ Len(e.rx) > 0
  /\ e.res = "I2C_NACK_READ"

\* C2: with READ_HEADER_NACK in the capabilities, a read-header NACK on a
\* pure read issued with allow_no_data makes the tracked wrapper return
\* MEASUREMENT_NOT_READY and set last_bus_activity_ms to the current time,
\* and leaves total_success, total_failures, consecutive_failures and
\* DriverState as they were.
C2_ExpectedNackIsNotAFailure ==
  \A e \in Transactions :
    (HasReadHeaderNack /\ NackOnAllowedRead(e)) =>
      /\ e.ret = "MEASUREMENT_NOT_READY"
      /\ e.h1.bus = e.ms
      /\ e.h1.ts = e.h0.ts
      /\ e.h1.tf = e.h0.tf
      /\ e.h1.cf = e.h0.cf
      /\ e.h1.state = e.h0.state

\* such a read happened, and it moved last_bus_activity_ms
C2_Witness ==
  \E e \in Transactions :
    /\ HasReadHeaderNack /\ NackOnAllowedRead(e)
    /\ e.h1.bus # e.h0.bus
    /\ e.h0.state = "READY"

\* C3: when the transport answers a tracked read with I2C_NACK_READ and
\* READ_HEADER_NACK is not in the capabilities, the read returns I2C_ERROR,
\* which the health tracker records as a failure: consecutive_failures is
\* incremented and DriverState leaves READY.
C3_NackWithoutCapabilityIsI2cError ==
  \A e \in Transactions :
    (~HasReadHeaderNack /\ e.k = "r" /\ e.tracked /\ e.res = "I2C_NACK_READ"
       /\ e.h0.state # "UNINIT") =>
      /\ e.ret = "I2C_ERROR"
      /\ e.h1.err = "I2C_ERROR"
      /\ e.h1.cf = e.h0.cf + 1
      /\ e.h1.state # "READY"

\* the step is a call of tick()
TickStep == ops' = ops + 1 /\ last'.op = "tick"

\* now is at or after ready_at_ms (signed 32-bit difference)
Due(now, readyAt) == Sub32(now, readyAt)[1] < 2^15

\* the six bytes are two words, each followed by its CRC
WellFormed(rx) == rx = Frame(rx[1] * 256 + rx[2], rx[4] * 256 + rx[5])

\* the compensated sample of the datasheet's fixed-point formulas
Converted(rx) ==
  [tempC_x100 |-> ((17500 * (rx[1] * 256 + rx[2]) + 32767) \div 65535) - 4500,
   humidityPct_x100 |-> (10000 * (rx[4] * 256 + rx[5]) + 32767) \div 65535]

\* C4: for a pending single-shot measurement, tick(now) with now at or
\* after ready_at_ms performs exactly one bus transaction, a 6-byte read.
\* If the read succeeds the sample is converted and stored,
\* sample_timestamp_ms = now, ready = true and requested = false; if it
\* fails (transport error or CRC mismatch) requested stays true and ready
\* stays false.
C4_SingleShotTick ==
  [][ (TickStep /\ drv.initialized /\ drv.measurementRequested
         /\ drv.mode = "SINGLE_SHOT"
         /\ Due(last'.arg, drv.measurementReadyMs)) =>
        LET io == last'.io
            e == io[1]
        IN  /\ Len(io) = 1
            /\ e.k = "r" /\ e.tx = <<>> /\ Len(e.rx) = 6
            /\ e.addr = drv.config.i2cAddress
            /\ IF e.res = "OK" /\ WellFormed(e.rx)
               THEN /\ drv'.rawSample = [rawTemperature |-> e.rx[1] * 256 + e.rx[2],
                                         rawHumidity |-> e.rx[4] * 256 + e.rx[5]]
                    /\ drv'.compSample = Converted(e.rx)
                    /\ drv'.sampleTimestampMs = last'.arg
                    /\ drv'.measurementReady
                    /\ ~drv'.measurementRequested
               ELSE /\ drv'.measurementRequested
                    /\ ~drv'.measurementReady
                    /\ drv'.compSample = drv.compSample ]_vars

\* a single-shot sample (raw 0xBEEF / 0x6666) delivered by tick()
C4_Witness ==
  /\ last.op = "tick" /\ IsOk(last.st)
  /\ drv.mode = "SINGLE_SHOT"
  /\ drv.measurementReady /\ ~drv.measurementRequested
  /\ drv.sampleTimestampMs = last.arg
  /\ drv.compSample = [tempC_x100 |-> 8552, humidityPct_x100 |-> 4000]

\* C5: for a pending measurement in any mode, tick(now) with now before
\* ready_at_ms, the difference now - ready_at_ms being negative as a signed
\* 32-bit number (so also when the clock wraps between the two), performs
\* no bus I/O and changes nothing in the driver.
C5_EarlyTickDoesNothing ==
  [][ (TickStep /\ drv.initialized /\ drv.measurementRequested
         /\ ~Due(last'.arg, drv.measurementReadyMs)) =>
        /\ last'.io = <<>>
        /\ drv' = drv
        /\ gMillis' = gMillis /\ gMicros' = gMicros ]_vars

\* an early tick whose now lies before the clock wrap and whose ready_at_ms
\* lies after it
C5_Witness ==
  /\ last.op = "tick" /\ last.io = <<>>
  /\ drv.initialized /\ drv.measurementRequested
  /\ ~Due(last.arg, drv.measurementReadyMs)
  /\ last.arg[1] >= 2^15
  /\ drv.measurementReadyMs[1] < 2^15

\* two successive calls of tick() with the same now
SameNowTicks ==
  /\ last.op = "tick" /\ last.before.op = "tick"
  /\ last.before.arg = last.arg

\* C6 as stated: of two successive tick(now) calls with the same now, the
\* second drives no bus I/O, whatever the outcome of the first.
C6_SecondTickNoIo == SameNowTicks => last.io = <<>>

\* C6 amended: of two successive tick(now) calls with the same now, the
\* second drives no bus I/O when the first returned early, delivered the
\* sample or got MEASUREMENT_NOT_READY; after a failed read or fetch the
\* measurement is still due and the second tick repeats the transfer.
C6_SecondTickNoIoUnlessFailed ==
  (SameNowTicks /\ last.before.code \in {"NONE", "OK", "MEASUREMENT_NOT_READY"})
    => last.io = <<>>

\* a second tick(now) that stayed silent after the first got a not-ready
\* answer on the bus
C6_Witness ==
  /\ SameNowTicks
  /\ last.before.io /\ last.before.code = "MEASUREMENT_NOT_READY"
  /\ last.io = <<>>

Streaming(d) == d.mode \in {"PERIODIC", "ART"}

\* the documented fetch margin: the configured one, or max(2 ms, period/20)
FetchMargin(d) ==
  IF d.config.periodicFetchMarginMs # 0 THEN d.config.periodicFetchMarginMs
  ELSE IF Nat32(d.periodMs) \div 20 > 2 THEN Nat32(d.periodMs) \div 20 ELSE 2

\* C7: in PERIODIC or ART mode request_measurement() schedules the fetch at
\* ready_at_ms = max(now, anchor + period_ms + fetch_margin), the anchor
\* being last_fetch_ms once a fetch has completed and periodic_start_ms
\* before that.
C7_PeriodicSchedule ==
  [][ (ops' = ops + 1 /\ last'.op = "requestMeasurement"
         /\ last'.st.code = "IN_PROGRESS" /\ Streaming(drv)) =>
        LET anchor == IF drv.lastFetchMs # Zero32 THEN drv.lastFetchMs
                      ELSE drv.periodicStartMs
            due == Add32(anchor, Add32(drv.periodMs, U32(FetchMargin(drv))))
        IN  drv'.measurementReadyMs = IF Due(gMillis, due) THEN gMillis ELSE due ]_vars

\* tick() made a periodic fetch that was answered "not ready"
NotReadyTick ==
  /\ TickStep /\ Streaming(drv)
  /\ last'.st.code = "MEASUREMENT_NOT_READY"

\* ... after which the measurement is pending, to be retried one command
\* delay after now
RetryScheduled ==
  /\ drv'.measurementRequested /\ ~drv'.measurementReady
  /\ drv'.measurementReadyMs = Add32(last'.arg, U32(drv.config.commandDelayMs))

\* the call after a not-ready tick is a tick at or after the retry time
RetryTick ==
  /\ TickStep
  /\ last.op = "tick" /\ last.st.code = "MEASUREMENT_NOT_READY"
  /\ Due(last'.arg, drv.measurementReadyMs)

\* ... which writes Fetch Data again and, if the write and the read
\* succeed, delivers the sample
Refetched ==
  LET io == last'.io
  IN  /\ Len(io) >= 1
      /\ io[1].k = "w" /\ io[1].tx = Word(CMD_FETCH_DATA)
      /\ (Len(io) = 2 /\ io[2].res = "OK" /\ WellFormed(io[2].rx)) =>
            /\ drv'.measurementReady /\ ~drv'.measurementRequested
            /\ drv'.compSample = Converted(io[2].rx)
            /\ drv'.sampleTimestampMs = last'.arg

C9_NotReadyEscalation ==
  [][ (TickStep /\ HasReadHeaderNack /\ drv.config.notReadyTimeoutMs > 0
         /\ drv.notReadyCount # Zero32
         /\ Len(last'.io) = 2 /\ last'.io[2].k = "r"
         /\ Nat32(Sub32(last'.io[1].ms, notReadySince)) > drv.config.notReadyTimeoutMs) =>
        LET e == last'.io[2]
        IN  /\ ~e.allow
            /\ e.res = "I2C_NACK_READ" =>
                  /\ e.ret = "I2C_NACK_READ"
                  /\ drv'.totalFailures = Add32(drv.totalFailures, U32(1)) ]_vars

\* the commands recover() may put on the bus
RecoveryWrites ==
  { Word(CMD_READ_STATUS), Word(CMD_BREAK), Word(CMD_SOFT_RESET),
    <<GENERAL_CALL_RESET_BYTE>> }

\* C10: whenever recover() returns OK, DriverState is READY, no measurement
\* is pending or ready, periodic_active is false, mode is SINGLE_SHOT, and
\* the settings the driver holds (repeatability, periodic rate, clock
\* stretching) are unchanged and none is re-applied: recover() wrote only
\* reset and probe commands and ended with the successful probe.
C10_RecoverOkIsSafeBaseline ==
  [][ (ops' = ops + 1 /\ last'.op = "recover" /\ IsOk(last'.st)) =>
        LET io == last'.io
        IN  /\ drv'.driverState = "READY"
            /\ ~drv'.measurementRequested /\ ~drv'.measurementReady
            /\ ~drv'.periodicActive
            /\ drv'.mode = "SINGLE_SHOT"
            /\ drv'.config.repeatability = drv.config.repeatability
            /\ drv'.config.periodicRate = drv.config.periodicRate
            /\ drv'.config.clockStretching = drv.config.clockStretching
            /\ \A i \in 1..Len(io) : io[i].k = "w" => io[i].tx \in RecoveryWrites
            /\ io # <<>> /\ io[Len(io)].k = "r" /\ io[Len(io)].res = "OK" ]_vars

\* recover() returned OK while a periodic measurement was pending
C10_Witness ==
  /\ last.op = "recover" /\ IsOk(last.st)
  /\ last.before.op = "requestMeasurement" /\ last.before.code = "IN_PROGRESS"
  /\ drv.config.periodicRate = "MPS_10"
  /\ drv.config.transportCapabilities # {}
  /\ ~drv.periodicActive

\* a call of recover() has just returned
RecoverStep == ops' = ops + 1 /\ last'.op = "recover"

\* position of a logged transaction in the recovery ladder: 1 bus reset,
\* 2 stop of the periodic mode, 3 soft reset, 4 hard reset, 5 general-call
\* reset; 0 for the transactions of a probe
LadderRank(e) ==
  IF e.k = "busReset" THEN 1
  ELSE IF e.k = "w" /\ e.tx = Word(CMD_BREAK) THEN 2
  ELSE IF e.k = "w" /\ e.tx = Word(CMD_SOFT_RESET) THEN 3
  ELSE IF e.k = "hardReset" THEN 4
  ELSE IF e.k = "w" /\ e.addr = GENERAL_CALL_ADDR THEN 5
  ELSE 0

ResetDone(e) == LadderRank(e) \in {1, 3, 4, 5} /\ e.res = "OK"
ProbeWrite(e) == e.k = "w" /\ e.tracked /\ e.tx = Word(CMD_READ_STATUS)
ProbeOk(e) ==
  /\ e.k = "r" /\ e.tracked /\ e.res = "OK"
  /\ _crc8(SubSeq(e.rx, 1, 2)) = e.rx[3]

\* C11: recover() attempts its enabled steps strictly in the order bus
\* reset, (stop periodic if active, then) soft reset, hard reset,
\* general-call reset; every step that completes is followed by a tracked
\* status-register probe (its command write, then its read), and the ladder
\* stops at the first successful probe without attempting any later step.
\* A step whose wait times out has not completed.
C11_LadderOrder ==
  last.op = "recover" =>
        LET io == last.io
            n == Len(last.io)
            timedOut == last.st.code = "TIMEOUT"
        IN  /\ \A i, j \in 1..n :
                 (i < j /\ LadderRank(io[i]) > 0 /\ LadderRank(io[j]) > 0)
                   => LadderRank(io[i]) < LadderRank(io[j])
            /\ (n > 0 /\ drv.config.recoverUseBusReset /\ drv.config.busReset)
                 => LadderRank(io[1]) = 1
            /\ \A i \in 1..n :
                 (LadderRank(io[i]) = 2 /\ io[i].res = "OK" /\ ~timedOut)
                   => (i < n /\ LadderRank(io[i + 1]) = 3)
            /\ \A i \in 1..n :
                 (ResetDone(io[i]) /\ ~timedOut)
                   => (i < n /\ ProbeWrite(io[i + 1]))
            /\ \A i \in 1..n :
                 (ProbeWrite(io[i]) /\ io[i].res = "OK" /\ ~timedOut)
                   => (i < n /\ io[i + 1].k = "r" /\ io[i + 1].tracked)
            /\ \A i \in 1..n :
                 ProbeWrite(io[i]) => (i > 1 /\ ResetDone(io[i - 1]))
            /\ \A i \in 1..n : ProbeOk(io[i]) => (i = n /\ IsOk(last.st))
            /\ IsOk(last.st) => (n > 0 /\ ProbeOk(io[n]))

\* recover() whose probe after the bus reset failed and whose probe after
\* the soft reset succeeded
C11_Witness ==
  /\ last.op = "recover" /\ IsOk(last.st)
  /\ \E i, j \in 1..Len(last.io) :
       /\ LadderRank(last.io[i]) = 1 /\ last.io[i].res = "OK"
       /\ LadderRank(last.io[j]) = 3
       /\ i < j

\* the previous call was a recover() that ran its ladder, and less than
\* recover_backoff_ms has passed since it was called
WithinBackoff ==
  /\ drv.initialized
  /\ drv.config.recoverBackoffMs > 0
  /\ last.op = "recover"
  /\ last.st.code \notin {"BUSY", "NOT_INITIALIZED"}
  /\ Sub32(gMillis, last.arg)[1] = 0
  /\ Sub32(gMillis, last.arg)[2] < drv.config.recoverBackoffMs

\* C12: recover() called before recover_backoff_ms has elapsed since the
\* previous recover() returns BUSY without performing any reset step or bus
\* I/O, and leaves the driver as it was.
C12_BackoffIsBusy ==
  [][ (RecoverStep /\ WithinBackoff) =>
        /\ last'.st.code = "BUSY"
        /\ last'.io = <<>>
        /\ drv' = drv
        /\ gMillis' = gMillis ]_vars

\* a second recover() was turned away within the back-off of the first,
\* which had done bus I/O
C12_Witness ==
  /\ last.op = "recover" /\ last.st.code = "BUSY"
  /\ last.before.op = "recover" /\ last.before.io
  /\ last.before.code \notin {"BUSY", "NOT_INITIALIZED"}
  /\ drv.config.recoverBackoffMs > 0
  /\ drv.lastRecoverMs # last.arg

\* a logged transaction that is a recovery step: the bus-reset callback,
\* the soft-reset command, the hard-reset callback or the general-call reset
RecoveryStep(e) == LadderRank(e) \in {1, 3, 4, 5}

\* C13: recovery is never automatic: no recovery step (bus-reset callback,
\* soft-reset command, hard-reset callback, general-call reset) is performed
\* by tick() or by any measurement or configuration operation; such steps
\* happen only inside a call the host makes to recover or reset the sensor.
C13_NoAutomaticRecovery ==
  last.op # "recover" => \A e \in Transactions : ~RecoveryStep(e)

\* a measurement call used the bus while the driver was OFFLINE
C13_Witness ==
  /\ last.op \in {"tick", "requestMeasurement"}
  /\ last.io # <<>>
  /\ last.io[1].h0.state = "OFFLINE"
  /\ \A e \in Transactions : ~RecoveryStep(e)

\* C14 as stated: after any sequence of calls, including failed begin(),
\* end() and a later begin(), consecutive_failures == 0 holds if and only
\* if DriverState is UNINIT or READY.
C14_ZeroFailuresIffUninitOrReady ==
  (drv.consecutiveFailures = 0) <=> (drv.driverState \in {"UNINIT", "READY"})

\* C14 amended: consecutive_failures == 0 implies DriverState is UNINIT or
\* READY, READY implies consecutive_failures == 0, and DriverState is
\* UNINIT exactly when the driver is not initialized; begin() clears the
\* counter, so it is 0 after every begin(), failed or not, while end()
\* keeps the counter it finds.
C14_ZeroFailuresAfterBegin ==
  /\ (drv.consecutiveFailures = 0) => (drv.driverState \in {"UNINIT", "READY"})
  /\ (drv.driverState = "READY") => (drv.consecutiveFailures = 0)
  /\ (drv.driverState = "UNINIT") <=> ~drv.initialized
  /\ last.op \in {"new", "begin"} => drv.consecutiveFailures = 0
  /\ last.op = "end" => drv.driverState = "UNINIT"

\* a begin() that failed after an end(), with the counter at 0
C14_Witness ==
  /\ last.op = "begin" /\ ~IsOk(last.st)
  /\ last.before.op = "end"
  /\ drv.driverState = "UNINIT"
  /\ drv.consecutiveFailures = 0
  /\ ~IsOk(drv.lastError)

\* a call of an operation that goes through the tracked wrappers has just
\* returned (begin() runs before initialization, probe() is untracked)
TrackedOps ==
  {"tick", "requestMeasurement", "startPeriodic", "startArt", "stopPeriodic",
   "readStatus", "setHeater", "recover"}
TrackedStep == ops' = ops + 1 /\ last'.op \in TrackedOps

\* statuses that are no failure for the health tracker
Unrecorded ==
  {"OK", "NONE", "INVALID_CONFIG", "INVALID_PARAM", "NOT_INITIALIZED",
   "IN_PROGRESS", "BUSY", "MEASUREMENT_NOT_READY"}

\* the health tracker has recorded the status the call returned
RecordedFailure ==
  /\ drv'.totalFailures # drv.totalFailures
  /\ drv'.consecutiveFailures >= 1
  /\ drv'.lastError.code = last'.st.code
  /\ drv'.driverState \in {"DEGRADED", "OFFLINE"}

ControlCodes ==
  {"NOT_INITIALIZED", "INVALID_CONFIG", "INVALID_PARAM", "BUSY", "IN_PROGRESS",
   "MEASUREMENT_NOT_READY"}

\* C16: an operation that returns NOT_INITIALIZED, INVALID_CONFIG,
\* INVALID_PARAM, BUSY, IN_PROGRESS or MEASUREMENT_NOT_READY has not
\* incremented total_failures or consecutive_failures and has not moved
\* DriverState to DEGRADED or OFFLINE.
C16_ControlCodesLeaveHealth ==
  [][ (ops' = ops + 1 /\ last'.st.code \in ControlCodes) =>
        /\ ~Gt32(drv'.totalFailures, drv.totalFailures)
        /\ drv'.consecutiveFailures <= drv.consecutiveFailures
        /\ drv'.driverState \in {"DEGRADED", "OFFLINE"}
             => drv'.driverState = drv.driverState ]_vars

\* a tick answered MEASUREMENT_NOT_READY after bus I/O, on a driver that
\* has counted no failure
C16_Witness ==
  /\ last.op = "tick" /\ last.st.code = "MEASUREMENT_NOT_READY"
  /\ last.io # <<>>
  /\ drv.initialized
  /\ drv.totalFailures = Zero32
  /\ drv.driverState = "READY"

\* C17: the driver calls the write_read transport callback only with tx
\* length 0: each device read is a standalone read that follows a separate
\* command write (in the same call, or, for the read of a single-shot
\* result, in the call that requested the measurement), never a combined
\* write+read.
C17_ReadsAreStandalone ==
  \A i \in 1..Len(last.io) :
    last.io[i].k = "r" =>
      /\ last.io[i].tx = <<>>
      /\ Len(last.io[i].rx) > 0
      /\ i > 1 => (last.io[i - 1].k = "w" /\ last.io[i - 1].res = "OK"
                   /\ Len(last.io[i - 1].tx) = 2)
      /\ i = 1 => last.op = "tick"

\* a periodic tick wrote the fetch command and then read six bytes
C17_Witness ==
  /\ last.op = "tick" /\ IsOk(last.st)
  /\ Len(last.io) = 2
  /\ last.io[1].k = "w" /\ last.io[1].tx = Word(CMD_FETCH_DATA)
  /\ last.io[2].k = "r" /\ last.io[2].tx = <<>> /\ Len(last.io[2].rx) = 6

\* microseconds from transaction a to the later transaction b
GapUs(a, b) == Sub32(b.us, a.us)

\* a command write the sensor accepted, and the transaction after it
CommandThenNext(i) ==
  /\ i < Len(last.io)
  /\ last.io[i].k = "w" /\ last.io[i].res = "OK"
  /\ last.io[i + 1].k \in {"w", "r"}

\* C18: no bus transaction to the sensor, whether a command write or the
\* read that follows a command, starts less than command_delay_ms after the
\* most recent command write; this holds for every recorded command time,
\* including a command written when the microsecond clock reads 0.
C18_CommandDelayRespected ==
  \A i \in 1..Len(last.io) :
    CommandThenNext(i) =>
      ~Gt32(U32(drv.config.commandDelayMs * 1000),
            GapUs(last.io[i], last.io[i + 1]))

\* calls that read back after the command they write
ReadBackOps == {"begin", "probe", "readStatus"}

\* C19: every wait in the timing gate terminates: it returns OK once the
\* target time is reached, and otherwise returns TIMEOUT; in particular,
\* with a previous command recorded and clocks that do not advance, the
\* idle gate returns TIMEOUT: during a call in which the clocks stand still
\* no bus transaction follows a command write, and a call that has to read
\* back returns TIMEOUT.
C19_StalledGateTimesOut ==
  [][ (ops' = ops + 1 /\ gMillis' = gMillis /\ gMicros' = gMicros) =>
        LET io == last'.io
        IN  \A i \in 1..Len(io) :
              (io[i].k = "w" /\ io[i].res = "OK") =>
                /\ \A j \in (i + 1)..Len(io) : io[j].k \notin {"w", "r"}
                /\ last'.op \in ReadBackOps => last'.st.code = "TIMEOUT" ]_vars

\* C20: after any sequence of operations, the measurement flags satisfy
\* ready implies not requested: a completed sample and a pending request
\* never coexist.
C20_ReadyImpliesNotRequested ==
  drv.measurementReady => ~drv.measurementRequested

\* a new request was made while the previous sample was still unread, and
\* the ready flag went down
C20_Witness ==
  /\ last.op = "requestMeasurement" /\ last.st.code = "IN_PROGRESS"
  /\ last.before.op = "tick" /\ last.before.code = "OK"
  /\ drv.measurementRequested /\ ~drv.measurementReady
  /\ drv.sampleTimestampMs # Zero32

\* C21: after any sequence of operations, if mode is PERIODIC or ART and a
\* measurement is requested, then periodic_active is true.
C21_RequestedStreamIsActive ==
  (drv.mode \in {"PERIODIC", "ART"} /\ drv.measurementRequested)
    => drv.periodicActive

\* a measurement is requested on a running ART stream
C21_Witness ==
  /\ drv.mode = "ART" /\ drv.measurementRequested /\ drv.periodicActive
  /\ last.op = "requestMeasurement" /\ last.st.code = "IN_PROGRESS"

\* a call made while a measurement is requested and not yet ready
Pending(d) == d.initialized /\ d.measurementRequested /\ ~d.measurementReady

PendingStep(names) == ops' = ops + 1 /\ last'.op \in names /\ Pending(drv)

\* C22 (as stated): every mode transition requested while a measurement is
\* pending (set_mode, start_periodic, start_art, stop_periodic) fails with
\* BUSY, writes nothing to the bus, and changes neither the mode nor the
\* pending measurement.
C22_ModeTransitionsBusy ==
  [][PendingStep({"setMode", "startPeriodic", "startArt", "stopPeriodic"})
       => /\ last'.st.code = "BUSY"
          /\ last'.io = <<>>
          /\ drv'.mode = drv.mode
          /\ Pending(drv')
          /\ drv'.measurementReadyMs = drv.measurementReadyMs]_vars

\* C22 (amended): set_mode called while a measurement is pending fails with
\* BUSY, writes nothing and leaves the driver as it was; start_periodic,
\* start_art and stop_periodic have no such guard: they never answer BUSY,
\* and a start that succeeds, or a stop of a running stream that succeeds,
\* discards the pending measurement.
C22_OnlySetModeIsGuarded ==
  [][/\ PendingStep({"setMode"})
          => last'.st.code = "BUSY" /\ last'.io = <<>> /\ drv' = drv
     /\ PendingStep({"startPeriodic", "startArt", "stopPeriodic"})
          => /\ last'.st.code # "BUSY"
             /\ (last'.st.code = "OK"
                   /\ (last'.op # "stopPeriodic" \/ drv.periodicActive))
                  => ~drv'.measurementRequested /\ last'.io # <<>>]_vars

\* set_mode has just been refused because a measurement is pending
C22_Witness ==
  /\ last.op = "setMode" /\ last.st.code = "BUSY" /\ last.io = <<>>
  /\ Pending(drv)
  /\ last.before.op = "requestMeasurement" /\ last.before.code = "IN_PROGRESS"

SetterStep ==
  /\ ops' = ops + 1
  /\ last'.op \in {"setRepeatability", "setPeriodicRate"}
  /\ drv.initialized /\ ~Pending(drv)
  /\ last'.st.code = "OK"

\* the start command of the stream the driver is in, for its new settings
StartCommand(mode, config) ==
  IF mode = "ART" THEN CMD_ART
  ELSE _commandForPeriodic(config.repeatability, config.periodicRate)

\* C23: set_repeatability and set_periodic_rate, called while the driver is
\* in PERIODIC or in ART, restart the stream by reissuing the start command
\* of the current mode: the periodic command for the new rate/repeatability
\* in PERIODIC, the ART command in ART.
C23_SettersRestartStream ==
  [][(SetterStep /\ drv.mode \in {"PERIODIC", "ART"})
       => /\ last'.io # <<>>
          /\ last'.io[Len(last'.io)].k = "w"
          /\ last'.io[Len(last'.io)].tx = Word(StartCommand(drv.mode, drv'.config))
          /\ drv'.mode = drv.mode /\ drv'.periodicActive]_vars

\* the calls that apply a setting to the sensor
ApplyOps ==
  {"setMode", "setRepeatability", "setPeriodicRate", "setHeater",
   "writeAlertLimitRaw", "startPeriodic", "startArt", "stopPeriodic"}

HeaterWrite(e) ==
  e.k = "w" /\ e.tx \in {Word(CMD_HEATER_ENABLE), Word(CMD_HEATER_DISABLE)}

AlertWrite(e) == e.k = "w" /\ Len(e.tx) = 5

\* C25: reset_and_restore() performs the recovery ladder and then reapplies
\* the cached settings in the fixed order repeatability, clock stretching,
\* periodic rate, heater, each valid alert limit, and finally mode; every
\* heater and alert-limit write therefore precedes the periodic/ART start
\* command, and periodic_active is true afterwards when the cached mode is
\* PERIODIC or ART.
C25_RestoreOrder ==
  (last.op = "resetAndRestore" /\ IsOk(last.st)) =>
    LET io == last.io
        n == Len(last.io)
        c == cachedSettings
        streaming == c.mode \in {"PERIODIC", "ART"}
        Heater(i) ==
          io[i].k = "w" /\ io[i].res = "OK"
            /\ io[i].tx = Word(IF c.heaterEnabled THEN CMD_HEATER_ENABLE
                               ELSE CMD_HEATER_DISABLE)
        Alert(i, k) ==
          /\ AlertWrite(io[i]) /\ io[i].res = "OK"
          /\ SubSeq(io[i].tx, 1, 2) = Word(_commandForAlertWrite(k))
          /\ SubSeq(io[i].tx, 3, 4) = Word(c.alertRaw[k])
    IN  /\ \E h \in 1..n :
             /\ Heater(h)
             /\ \E p \in 1..(h - 1) :
                  ProbeOk(io[p]) /\ \E r \in 1..(p - 1) : ResetDone(io[r])
             /\ \A i \in 1..(h - 1) : ~HeaterWrite(io[i]) /\ ~AlertWrite(io[i])
             /\ \A k \in 0..3 : c.alertValid[k] => \E a \in (h + 1)..n : Alert(a, k)
        /\ \A i \in 1..n :
             AlertWrite(io[i]) => \E k \in 0..3 : c.alertValid[k] /\ Alert(i, k)
        /\ \A i \in 1..n : \A j \in (i + 1)..n :
             (AlertWrite(io[i]) /\ AlertWrite(io[j]))
               => \E k1, k2 \in 0..3 : k1 < k2 /\ Alert(i, k1) /\ Alert(j, k2)
        /\ drv.config.repeatability = c.repeatability
        /\ drv.config.clockStretching = c.clockStretching
        /\ drv.config.periodicRate = c.periodicRate
        /\ streaming =>
             /\ io[n].k = "w" /\ io[n].tx = Word(StartCommand(c.mode, c))
             /\ \A i \in 1..n : (HeaterWrite(io[i]) \/ AlertWrite(io[i])) => i < n
             /\ drv.periodicActive /\ drv.mode = c.mode
        /\ ~streaming => (~drv.periodicActive /\ drv.mode = "SINGLE_SHOT")

\* an ART stream and the HIGH_SET limit have been restored after the reset
C25_Witness ==
  /\ last.op = "resetAndRestore" /\ IsOk(last.st)
  /\ cachedSettings.mode = "ART" /\ cachedSettings.alertValid[0]
  /\ drv.periodicActive /\ drv.mode = "ART"
  /\ \E i \in 1..Len(last.io) : AlertWrite(last.io[i])
  /\ last.io[Len(last.io)].tx = Word(CMD_ART)

LadderFailed ==
  last.op = "recover" /\ last.st.code \notin {"OK", "BUSY", "NOT_INITIALIZED"}

\* C27: when no ladder step ends in a successful probe, recover() returns
\* the error of the last step it attempted: the status of the last
\* transaction of the ladder, unless a wait of that step timed out.
C27_LastStepError ==
  LadderFailed =>
    LET n == Len(last.io)
    IN  /\ n > 0
        /\ \/ last.st.code = "TIMEOUT"
           \/ last.io[n].res # "OK" /\ last.st = Error(last.io[n].res, n)
           \/ /\ last.io[n].k = "r" /\ last.io[n].res = "OK"
              /\ _crc8(SubSeq(last.io[n].rx, 1, 2)) # last.io[n].rx[3]
              /\ last.st.code = "CRC_MISMATCH"

\* the probe after the bus reset failed, and recover() returned the error of
\* the later probe that followed the soft reset
C27_Witness ==
  /\ LadderFailed
  /\ last.st = Error("I2C_TIMEOUT", Len(last.io))
  /\ \E i, j \in 1..Len(last.io) :
       /\ i < j /\ j < Len(last.io)
       /\ last.io[i].k = "r" /\ last.io[i].res = "I2C_TIMEOUT"
       /\ LadderRank(last.io[j]) = 3

GeneralCallWrite(e) == e.k = "w" /\ e.addr = GENERAL_CALL_ADDR

\* C28: the driver writes to the general-call address 0x00 only when
\* allow_general_call_reset is true: with the flag false, neither recover()
\* nor general_call_reset() ever issues that write.
C28_GeneralCallOnlyWhenAllowed ==
  /\ \A i \in 1..Len(last.io) :
       GeneralCallWrite(last.io[i])
         => /\ drv.config.allowGeneralCallReset
            /\ last.op \in {"recover", "generalCallReset", "resetToDefaults",
                            "resetAndRestore"}
            /\ last.io[i].tx = <<GENERAL_CALL_RESET_BYTE>>
  /\ (last.op = "generalCallReset" /\ drv.initialized
        /\ ~drv.config.allowGeneralCallReset)
       => (last.st.code = "INVALID_CONFIG" /\ last.io = <<>>)

\* with the flag false, recover() has run out of steps after the soft reset
\* without touching address 0x00
C28_Witness ==
  /\ LadderFailed /\ ~drv.config.allowGeneralCallReset
  /\ \E i \in 1..Len(last.io) : LadderRank(last.io[i]) = 3
  /\ \A i \in 1..Len(last.io) : ~GeneralCallWrite(last.io[i])
  /\ last.st.code = "I2C_TIMEOUT"

GetStep == ops' = ops + 1 /\ last'.op = "getMeasurement" /\ drv.initialized

\* C29: get_measurement() succeeds only when ready is true and clears ready
\* on success, so each completed measurement is delivered by get_measurement
\* at most once; when ready is false it returns MEASUREMENT_NOT_READY and
\* changes nothing.
C29_DeliveredOnce ==
  [][GetStep
       => /\ last'.io = <<>>
          /\ drv.measurementReady
               => /\ last'.st.code = "OK"
                  /\ drv' = [drv EXCEPT !.measurementReady = FALSE]
          /\ ~drv.measurementReady
               => /\ last'.st.code = "MEASUREMENT_NOT_READY"
                  /\ drv' = drv]_vars

\* a sample read by tick() has been handed out and is no longer ready
C29_Witness ==
  /\ last.op = "getMeasurement" /\ last.st.code = "OK"
  /\ last.before.op = "tick" /\ last.before.io
  /\ ~drv.measurementReady /\ ~drv.measurementRequested
  /\ drv.rawSample.rawTemperature = 48879

RequestStep == ops' = ops + 1 /\ last'.op = "requestMeasurement" /\ drv.initialized

\* C30: request_measurement() called while a measurement is pending
\* (requested and not yet ready) returns BUSY, performs no bus I/O and leaves
\* ready_at_ms and the pending request unchanged; otherwise, when it starts
\* or schedules a measurement, it returns IN_PROGRESS.
C30_RequestWhilePending ==
  [][RequestStep
       => /\ Pending(drv)
               => /\ last'.st.code = "BUSY" /\ last'.io = <<>>
                  /\ drv' = drv
          /\ ~Pending(drv)
               => /\ last'.st.code # "BUSY"
                  /\ Pending(drv') <=> last'.st.code = "IN_PROGRESS"
                  /\ (last'.st.code = "IN_PROGRESS" /\ drv.mode = "SINGLE_SHOT")
                       => /\ Len(last'.io) = 1 /\ last'.io[1].res = "OK"
                          /\ last'.io[1].tx =
                               Word(_commandForSingleShot(drv.config.repeatability,
                                                          drv.config.clockStretching))
                  /\ (last'.st.code = "IN_PROGRESS" /\ drv.mode # "SINGLE_SHOT")
                       => last'.io = <<>> /\ drv.periodicActive]_vars

\* a second request made while the first is pending has been refused
C30_Witness ==
  /\ last.op = "requestMeasurement" /\ last.st.code = "BUSY" /\ last.io = <<>>
  /\ last.before.op = "requestMeasurement" /\ last.before.code = "IN_PROGRESS"
  /\ Pending(drv)

StopStep ==
  /\ ops' = ops + 1 /\ last'.op = "stopPeriodic"
  /\ drv.initialized /\ drv.periodicActive

BreakWrite(e) == e.k = "w" /\ e.addr = drv.config.i2cAddress /\ e.tx = Word(CMD_BREAK)

\* C31: stop_periodic() called while PERIODIC or ART is active writes the
\* Break command, waits the break settle time, and on success leaves
\* mode = SINGLE_SHOT and periodic_active = false with the periodic
\* bookkeeping (period, start time, last fetch, missed-sample and not-ready
\* counters) cleared; the Break command is the only transfer of the call, and
\* a call that fails leaves the stream flag and the mode as they were.
C31_StopPeriodic ==
  [][StopStep
       => /\ \A i \in 1..Len(last'.io) : i = 1 /\ BreakWrite(last'.io[i])
          /\ last'.st.code # "TIMEOUT" => Len(last'.io) = 1
          /\ last'.st.code = "OK"
               => /\ last'.io[1].res = "OK"
                  /\ gMillis' = Add32(last'.io[1].ms, U32(BREAK_DELAY_MS))
                  /\ drv'.mode = "SINGLE_SHOT" /\ drv'.config.mode = "SINGLE_SHOT"
                  /\ ~drv'.periodicActive
                  /\ drv'.periodMs = Zero32 /\ drv'.periodicStartMs = Zero32
                  /\ drv'.lastFetchMs = Zero32 /\ drv'.missedSamples = Zero32
                  /\ drv'.notReadyStartMs = Zero32 /\ drv'.notReadyCount = Zero32
          /\ last'.st.code # "OK"
               => /\ drv'.periodicActive /\ drv'.mode = drv.mode
                  /\ drv'.periodMs = drv.periodMs]_vars

\* a running ART stream has just been stopped: Break written, the settle
\* time waited, the driver back in single-shot mode
C31_Witness ==
  /\ last.op = "stopPeriodic" /\ last.st.code = "OK"
  /\ last.before.op = "startArt" /\ last.before.code = "OK"
  /\ Len(last.io) = 1 /\ last.io[1].tx = Word(CMD_BREAK)
  /\ gMillis = Add32(last.io[1].ms, U32(BREAK_DELAY_MS))
  /\ drv.mode = "SINGLE_SHOT" /\ ~drv.periodicActive /\ drv.periodMs = Zero32

\* the machine of the next call had the health state been READY
ReadyTwin(env) == [Machine(env) EXCEPT !.d.driverState = "READY"]

\* the call named op made on that machine
CallAsReady(op, arg, env) ==
  CASE op = "requestMeasurement" -> requestMeasurement(ReadyTwin(env))
    [] op = "startArt" -> startArt(ReadyTwin(env))
    [] op = "stopPeriodic" -> stopPeriodic(ReadyTwin(env))
    [] op = "probe" -> probe(ReadyTwin(env))
    [] op = "readStatus" -> readStatus(ReadyTwin(env))
    [] op = "setHeater" -> setHeater(ReadyTwin(env), TRUE)
    [] op = "recover" -> recover(ReadyTwin(env))

\* what the bus saw of a call
OnTheWire(io) ==
  [i \in 1..Len(io) |->
     [k |-> io[i].k, addr |-> io[i].addr, tx |-> io[i].tx, rx |-> io[i].rx,
      res |-> io[i].res, ms |-> io[i].ms, us |-> io[i].us]]

\* the behaviours of the transport and the clock a call may have been made
\* under: none of them when the call used up no fault
CallEnvs(op) ==
  IF faults' = faults THEN {Quiet}
  ELSE IF op = "recover" THEN RecoverFaults
  ELSE Faulty(WriteFaults(2), {<<o>> : o \in WordOutcomes})

UnhealthyStep ==
  /\ ops' = ops + 1
  /\ drv.initialized /\ drv.driverState \in {"DEGRADED", "OFFLINE"}

\* C32: DriverState never gates the API: a call made while the state is
\* DEGRADED or OFFLINE returns the status, makes the bus transfers and leaves
\* the driver fields that the same call would have on a driver in READY; the
\* one field that may differ is the health state itself, which a call without
\* a tracked transfer leaves as it was.
C32_StateNeverGates ==
  [][UnhealthyStep
       => \E env \in CallEnvs(last'.op) :
            \E r \in {CallAsReady(last'.op, last'.arg, env)} :
              /\ r.st = last'.st
              /\ OnTheWire(r.m.io) = OnTheWire(last'.io)
              /\ [r.m.d EXCEPT !.driverState = "READY"]
                   = [drv' EXCEPT !.driverState = "READY"]]_vars

\* a measurement was requested on a driver that held the sensor to be
\* OFFLINE: the single-shot command went out and was acknowledged
C32_Witness ==
  /\ last.op = "requestMeasurement" /\ last.st.code = "IN_PROGRESS"
  /\ Len(last.io) = 1 /\ last.io[1].h0.state = "OFFLINE" /\ last.io[1].res = "OK"
  /\ drv.driverState = "READY" /\ drv.measurementRequested

\* the i-th transfer of the latest call is a read that does not follow the
\* Fetch Data command
NonFetchRead(i) ==
  /\ last.io[i].k = "r"
  /\ ~(i > 1 /\ last.io[i - 1].k = "w" /\ last.io[i - 1].tx = Word(CMD_FETCH_DATA))

\* C33: the not-ready translation applies only to periodic Fetch Data reads:
\* with READ_HEADER_NACK declared, no other read (single-shot measurement,
\* status register, serial number, alert limit) is made with allow_no_data or
\* answers MEASUREMENT_NOT_READY, and an I2C_NACK_READ on such a read made
\* through the tracked wrapper of an initialized driver is returned as it is
\* and recorded as a failure by the health tracker.
C33_TranslationOnlyOnFetch ==
  \A i \in 1..Len(last.io) :
    (HasReadHeaderNack /\ NonFetchRead(i)) =>
      /\ ~last.io[i].allow
      /\ last.io[i].ret # "MEASUREMENT_NOT_READY"
      /\ (last.io[i].res = "I2C_NACK_READ" /\ last.io[i].tracked
            /\ last.io[i].h0.state # "UNINIT")
           => /\ last.io[i].ret = "I2C_NACK_READ"
              /\ last.st.code = "I2C_NACK_READ"
              /\ last.io[i].h1.err = "I2C_NACK_READ"
              /\ last.io[i].h1.tf = SatInc32(last.io[i].h0.tf)
              /\ last.io[i].h1.cf = last.io[i].h0.cf + 1
              /\ last.io[i].h1.ts = last.io[i].h0.ts
              /\ last.io[i].h1.state \in {"DEGRADED", "OFFLINE"}

\* the read of a single-shot measurement was answered with a read-header
\* NACK on a transport that declares READ_HEADER_NACK, and counted
C33_Witness ==
  /\ HasReadHeaderNack
  /\ last.op = "tick" /\ last.st.code = "I2C_NACK_READ"
  /\ Len(last.io) = 1 /\ NonFetchRead(1)
  /\ last.io[1].h0.state = "READY" /\ last.io[1].h1.state # "READY"
  /\ drv.mode = "SINGLE_SHOT" /\ drv.measurementRequested

\* the latest call was a begin() that did not return OK
BeginFailed == last.op = "begin" /\ last.st.code # "OK"

\* the transfers of the status probe: the Read Status command and its read
ProbeFailed ==
  /\ last.io # <<>> /\ Len(last.io) <= 2
  /\ isI2cFailure(last.io[Len(last.io)].res)

\* C34: a begin() that does not return OK leaves DriverState = UNINIT and
\* counts nothing: total_success, total_failures and consecutive_failures
\* are at the zero begin() gives them and no transfer of the call changes
\* them.  An invalid configuration yields INVALID_CONFIG with no bus I/O and
\* no health record at all; a status probe that fails with an I2C error
\* yields DEVICE_NOT_FOUND with only last_error, last_error_ms and the bus
\* activity time recorded.
C34_FailedBeginStaysUninit ==
  BeginFailed =>
    /\ ~drv.initialized /\ drv.driverState = "UNINIT"
    /\ drv.totalSuccess = Zero32 /\ drv.totalFailures = Zero32
    /\ drv.consecutiveFailures = 0
    /\ \A i \in 1..Len(last.io) :
         /\ last.io[i].h1.ts = Zero32 /\ last.io[i].h1.tf = Zero32
         /\ last.io[i].h1.cf = 0 /\ last.io[i].h1.state = "UNINIT"
    /\ last.st.code = "INVALID_CONFIG"
         => /\ last.io = <<>>
            /\ drv.lastOkMs = Zero32 /\ drv.lastErrorMs = Zero32
            /\ drv.lastBusActivityMs = Zero32 /\ drv.lastError = Ok
    /\ last.st.code = "DEVICE_NOT_FOUND" <=> ProbeFailed
    /\ ProbeFailed
         => /\ drv.lastError.code = last.io[Len(last.io)].res
            /\ drv.lastErrorMs = last.io[Len(last.io)].ms
            /\ drv.lastBusActivityMs = last.io[Len(last.io)].ms

\* a driver was shut down with end(), and the begin() that followed found
\* no sensor: DEVICE_NOT_FOUND, the error recorded, the counters at zero
C34_Witness ==
  /\ BeginFailed /\ last.st.code = "DEVICE_NOT_FOUND"
  /\ last.before.op = "end"
  /\ Len(last.io) = 2 /\ last.io[2].res = "I2C_TIMEOUT"
  /\ drv.lastError.code = "I2C_TIMEOUT" /\ drv.totalFailures = Zero32
  /\ drv.driverState = "UNINIT"

\* tick() has read six bytes and the CRC of one of the two words is wrong
CrcFailedTick ==
  /\ TickStep /\ last'.io # <<>>
  /\ last'.io[Len(last'.io)].k = "r" /\ last'.io[Len(last'.io)].res = "OK"
  /\ Len(last'.io[Len(last'.io)].rx) = MEASUREMENT_DATA_LEN
  /\ ~WellFormed(last'.io[Len(last'.io)].rx)

\* C35: a measurement read in which the CRC-8 of either 16-bit word does
\* not match fails with CRC_MISMATCH, never sets ready, and never overwrites
\* the previously stored raw or compensated sample; the request stays
\* pending and the sample timestamp is kept.
C35_CrcMismatchKeepsSample ==
  [][CrcFailedTick
       => /\ last'.st.code = "CRC_MISMATCH"
          /\ ~drv'.measurementReady /\ drv'.measurementRequested
          /\ drv'.rawSample = drv.rawSample
          /\ drv'.compSample = drv.compSample
          /\ drv'.sampleTimestampMs = drv.sampleTimestampMs]_vars

\* the temperature word of a measurement arrived with a wrong CRC: the read
\* failed and the stored sample is not the one of the frame
C35_Witness ==
  /\ last.op = "tick" /\ last.st.code = "CRC_MISMATCH"
  /\ last.io[Len(last.io)].rx = BadCrc(GoodFrame, 1)
  /\ drv.rawSample = NoSample /\ drv.compSample = NoComp
  /\ drv.measurementRequested /\ ~drv.measurementReady

\* the calls that address the sensor's registers
RegisterOps ==
  {"readStatus", "clearStatus", "setHeater", "readSerialNumber",
   "readAlertLimitRaw", "writeAlertLimitRaw", "softReset", "probe"}

\* the command each of them sends first
CommandOf(op) ==
  CASE op \in {"readStatus", "probe"} -> CMD_READ_STATUS
    [] op = "clearStatus" -> CMD_CLEAR_STATUS
    [] op = "setHeater" -> CMD_HEATER_ENABLE
    [] op = "readSerialNumber" -> CMD_SERIAL_NO_STRETCH
    [] op = "readAlertLimitRaw" -> CMD_ALERT_READ_HIGH_SET
    [] op = "writeAlertLimitRaw" -> CMD_ALERT_WRITE_HIGH_SET
    [] op = "softReset" -> CMD_SOFT_RESET

\* a single-shot measurement has been triggered and not yet read
SingleShotPending(d) == Pending(d) /\ d.mode = "SINGLE_SHOT" /\ ~d.periodicActive

RegisterStep == ops' = ops + 1 /\ last'.op \in RegisterOps /\ drv.initialized

\* C36 (as stated): while a single-shot measurement is pending, none of
\* read_status, clear_status, set_heater, read_serial_number, alert-limit
\* access, soft_reset or probe writes a command to the sensor.
C36_NoCommandWhilePending ==
  [][RegisterStep /\ SingleShotPending(drv)
       => \A i \in 1..Len(last'.io) : last'.io[i].k # "w"]_vars

\* C36 (amended): a pending single-shot measurement does not hold these calls
\* back: each of them starts by writing its own command to the sensor, between
\* the trigger and the measurement read, unless the wait for the command
\* delay times out first. What holds them back is a running periodic stream:
\* then each but probe returns BUSY without a transfer.
C36_OnlyStreamBlocksRegisterCalls ==
  [][RegisterStep
       => /\ SingleShotPending(drv)
               => /\ last'.st.code # "BUSY"
                  /\ \/ last'.io = <<>> /\ last'.st.code = "TIMEOUT"
                     \/ /\ last'.io # <<>>
                        /\ last'.io[1].k = "w"
                        /\ last'.io[1].addr = drv.config.i2cAddress
                        /\ SubSeq(last'.io[1].tx, 1, 2) = Word(CommandOf(last'.op))
          /\ drv.periodicActive /\ last'.op # "probe"
               => last'.st.code = "BUSY" /\ last'.io = <<>> /\ drv' = drv]_vars

\* the status register was read while the single-shot measurement triggered
\* by the call before was still awaited: the Read Status command went out and
\* the measurement is still pending
C36_Witness ==
  /\ last.op = "readStatus" /\ last.st.code = "OK"
  /\ last.before.op = "requestMeasurement" /\ last.before.code = "IN_PROGRESS"
  /\ last.io[1].k = "w" /\ last.io[1].tx = Word(CMD_READ_STATUS)
  /\ last.io[1].res = "OK"
  /\ SingleShotPending(drv)

\* a logged transaction that takes the sensor out of the periodic mode: the
\* Break command, the soft-reset command, the hard-reset callback or the
\* general-call reset, carried out without an error
StopsStream(e) == LadderRank(e) \in {2, 3, 4, 5} /\ e.res = "OK"

\* the driver's periodic_active flag goes from true to false
FlagDrops == ops' = ops + 1 /\ drv.periodicActive /\ ~drv'.periodicActive

\* C37 (as stated): whenever periodic_active goes from true to false, a Break
\* command, a soft-reset command, the hard-reset callback or a general-call
\* reset has been issued successfully, also in recover() and in begin()
\* after end().
C37_FlagDropsOnlyAfterStop ==
  [][FlagDrops => \E i \in 1..Len(last'.io) : StopsStream(last'.io[i])]_vars

\* C37 (amended): periodic_active goes from true to false only in a call
\* that issued a Break command, a soft-reset command, the hard-reset callback
\* or a general-call reset successfully, or in recover() that returns OK on
\* its bus-reset step (the callback and the probe being all that reached the
\* bus), or in begin(), which clears the flag before its first transfer.
C37_FlagDropsOnlyByStopRecoverOrBegin ==
  [][FlagDrops
       => \/ \E i \in 1..Len(last'.io) : StopsStream(last'.io[i])
          \/ /\ last'.op = "recover" /\ IsOk(last'.st)
             /\ Len(last'.io) = 3
             /\ last'.io[1].k = "busReset" /\ last'.io[1].res = "OK"
             /\ ProbeWrite(last'.io[2]) /\ ProbeOk(last'.io[3])
          \/ /\ last'.op = "begin"
             /\ \A i \in 1..Len(last'.io) :
                  last'.io[i].k = "w" => last'.io[i].h0.state = "UNINIT"]_vars

\* recover() returned OK on its bus-reset step while the stream started by
\* begin() was running: the flag is cleared and neither Break nor a reset of
\* the sensor was issued
C37_Witness ==
  /\ last.op = "recover" /\ IsOk(last.st)
  /\ last.before.op = "begin" /\ last.before.code = "OK"
  /\ drv.config.periodicRate = "MPS_10" /\ drv.config.busReset
  /\ last.io[1].k = "busReset" /\ last.io[1].res = "OK"
  /\ \A i \in 1..Len(last.io) : ~StopsStream(last.io[i])
  /\ ~drv.periodicActive /\ drv.mode = "SINGLE_SHOT"

\* the calls that start or restart a stream
StartOps ==
  {"startPeriodic", "startArt", "setMode", "setRepeatability", "setPeriodicRate"}

\* one of them has just returned an error
FailedStartStep ==
  /\ ops' = ops + 1 /\ last'.op \in StartOps
  /\ drv.initialized /\ ~IsOk(last'.st)

\* C38 (as stated): a start_periodic, start_art, set_mode, set_repeatability
\* or set_periodic_rate call that returns an error leaves mode and
\* periodic_active as they were before the call.
C38_FailedStartKeepsMode ==
  [][FailedStartStep
       => drv'.mode = drv.mode /\ drv'.periodicActive = drv.periodicActive]_vars

\* C38 (amended): such a call that returns an error leaves mode and
\* periodic_active as they were, except when it restarts a running stream:
\* once the Break command has been written and waited for, the stream is
\* taken as stopped, and a start command whose write then fails returns the
\* write's error with mode SINGLE_SHOT and periodic_active false.
C38_FailedRestartLeavesStreamStopped ==
  [][FailedStartStep
       => \/ drv'.mode = drv.mode /\ drv'.periodicActive = drv.periodicActive
          \/ /\ drv.periodicActive
             /\ Len(last'.io) = 2
             /\ BreakWrite(last'.io[1]) /\ last'.io[1].res = "OK"
             /\ last'.io[2].k = "w" /\ last'.io[2].res # "OK"
             /\ last'.io[2].res = last'.st.code
             /\ drv'.mode = "SINGLE_SHOT" /\ ~drv'.periodicActive]_vars

\* start_art() called on the stream begin() had started: the Break command
\* was acknowledged, the ART command was not, and the call returned the
\* error with the stream stopped
C38_Witness ==
  /\ last.op = "startArt" /\ last.st.code = "I2C_NACK_ADDR"
  /\ last.before.op = "begin" /\ last.before.code = "OK"
  /\ drv.config.busReset
  /\ Len(last.io) = 2
  /\ BreakWrite(last.io[1]) /\ last.io[1].res = "OK"
  /\ last.io[2].tx = Word(CMD_ART) /\ last.io[2].res = "I2C_NACK_ADDR"
  /\ drv.mode = "SINGLE_SHOT" /\ ~drv.periodicActive

\* request_measurement() has just returned something other than IN_PROGRESS
RefusedRequest == RequestStep /\ last'.st.code # "IN_PROGRESS"

\* the measurement state but for the ready flag
SampleState(d) ==
  <<d.measurementRequested, d.measurementReadyMs, d.rawSample, d.compSample,
    d.sampleTimestampMs>>

\* C39 (as stated): a request_measurement() call that returns an error
\* (anything other than IN_PROGRESS) leaves the measurement state unchanged:
\* a completed sample that has not been consumed is still ready afterwards.
C39_RefusedRequestKeepsSample ==
  [][RefusedRequest
       => /\ SampleState(drv') = SampleState(drv)
          /\ drv'.measurementReady = drv.measurementReady]_vars

\* C39 (amended): a request_measurement() call that returns BUSY (a
\* measurement is pending) leaves the measurement state unchanged. A call
\* that gets past that check and fails leaves the request flag, the ready
\* time and the stored sample unchanged but has cleared the ready flag
\* before writing the trigger: a completed sample that had not been consumed
\* can no longer be read with get_measurement().
C39_FailedRequestDropsReady ==
  [][RefusedRequest
       => /\ SampleState(drv') = SampleState(drv)
          /\ last'.st.code = "BUSY"
               => Pending(drv) /\ drv'.measurementReady = drv.measurementReady
          /\ last'.st.code # "BUSY"
               => ~drv'.measurementReady /\ last'.st.code # "OK"]_vars

\* the trigger of a new measurement was refused by the bus while the sample
\* read by the tick() before was waiting to be read out: it is no longer ready
C39_Witness ==
  /\ last.op = "requestMeasurement" /\ last.st.code = "I2C_NACK_ADDR"
  /\ last.before.op = "tick" /\ last.before.code = "OK" /\ last.before.io
  /\ drv.mode = "SINGLE_SHOT"
  /\ drv.rawSample.rawTemperature = 48879
  /\ drv.sampleTimestampMs = last.before.arg
  /\ ~drv.measurementReady /\ ~drv.measurementRequested

\* recover() is called and the call before it was a begin() that returned OK
FirstRecoverStep == RecoverStep /\ last.op = "begin" /\ IsOk(last.st)

\* C40: the first recover() after a successful begin() is never rejected by
\* the backoff, whatever the clock value: recover() returns BUSY only if an
\* earlier recover() was made less than recover_backoff_ms before it. Checked
\* for the recover() that directly follows begin(), which no recover() has
\* preceded since the driver was initialized.
C40_FirstRecoverNotBusy ==
  [][FirstRecoverStep => last'.st.code # "BUSY"]_vars

====
